---- MODULE Spec2Model ----
(***************************************************************************)
(* A model of autosync: a JSON document kept in a yrs (Yjs) replicated     *)
(* document, driven by JSON-Patch operations (src/autosync/autosync.go).   *)
(*                                                                         *)
(* Go values are tagged records [t, v]:                                    *)
(*   nil, bool, int, uint, float, str, list (<<...>>), map (key :> value)  *)
(* Values stored by the engine (YInput / Any) carry the engine's tags:     *)
(*   null, bool, long, float, str, list, map                               *)
(* Numbers are small integers; a float's v is its numeric value.           *)
(***************************************************************************)
EXTENDS Integers, Sequences, FiniteSets, TLC

VARIABLES
    docs,    \* docs[d]: the yrs document of Doc d: [items, dels]
    txns,    \* txns[d]: transactions of d's YDoc that are open
    blobs,   \* byte slices returned by GetStateVector, held by the caller
    last,    \* what the last public call was given and what it returned
    calls    \* public calls made so far

vars == <<docs, txns, blobs, last, calls>>

----------------------------------------------------------------------------
(* Bounds of the model *)

MaxCalls == 3      \* public calls in one run on a single document
MaxSyncCalls == 6  \* public calls in one run on two replicas
MaxJsCalls == 3
MaxOpCalls == 2    \* calls of applyOperations in one run of the JS document
MaxDiffCalls == 3  \* public calls in one run with keys that pointers escape
MaxAllCalls == 3   \* public calls in one run with every call and a second user
MaxBlobs == 2      \* state vectors the caller keeps
IntBits == 4       \* width of the model's int64 (the code's is 64)

MaxInt64 == 2 ^ (IntBits - 1) - 1

----------------------------------------------------------------------------
(* Go values *)

GoNil == [t |-> "nil", v |-> 0]
GoBool(b) == [t |-> "bool", v |-> b]
GoInt(n) == [t |-> "int", v |-> n]
GoUint(n) == [t |-> "uint", v |-> n]
GoFloat(n) == [t |-> "float", v |-> n]
GoStr(s) == [t |-> "str", v |-> s]
GoList(q) == [t |-> "list", v |-> q]
GoMap(f) == [t |-> "map", v |-> f]
GoChan == [t |-> "chan", v |-> 0]     \* a kind the conversion does not support

EmptyMap == GoMap(<<>>)

(* decimal text of a list index, as strconv.Itoa / strconv.ParseUint use it *)
Digits == <<"0", "1", "2", "3", "4", "5", "6", "7", "8", "9">>
Itoa(i) == Digits[i + 1]
IsUint(s) == \E i \in 1..Len(Digits) : Digits[i] = s
ParseUint(s) == (CHOOSE i \in 1..Len(Digits) : Digits[i] = s) - 1

----------------------------------------------------------------------------
(* The engine: a yrs document.                                             *)
(* An item is one integrated block: id = <<client, clock, path>>, where    *)
(* path places a nested value inside the insertion it arrived with.        *)
(* parent is the id of the container (RootId for the root map), sub is     *)
(* <<key>> for a map entry and <<>> for a list element, origin is <<left>> *)
(* for a list element inserted after item left, c is the content.          *)

RootId == <<0, 0, <<>>>>

NewYDoc == [items |-> {}, dels |-> {}]

YNull == [t |-> "null", v |-> 0]
YMapMark == [t |-> "map", v |-> <<>>]
YListMark == [t |-> "list", v |-> <<>>]

SetMax(S) == CHOOSE x \in S : \A y \in S : y <= x

(* the clock of the next insertion: one more than every clock seen *)
NextClock(s) == IF s.items = {} THEN 1 ELSE SetMax({i.id[2] : i \in s.items}) + 1

(* x was integrated after y: a later clock, the client breaking ties *)
Newer(x, y) == \/ x.id[2] > y.id[2]
               \/ x.id[2] = y.id[2] /\ x.id[1] > y.id[1]

Newest(S) == CHOOSE x \in S : \A y \in S \ {x} : Newer(x, y)

RECURSIVE Integrate(_, _, _, _, _, _, _)
Integrate(y, c, k, p, parent, sub, origin) ==
    LET id == <<c, k, p>>
        it(content) == [id |-> id, parent |-> parent, sub |-> sub,
                        origin |-> origin, c |-> content]
    IN  IF y.t = "map"
        THEN {it(YMapMark)} \cup
             UNION {Integrate(y.v[key], c, k, Append(p, key), id, <<key>>, <<>>)
                        : key \in DOMAIN y.v}
        ELSE IF y.t = "list"
        THEN {it(YListMark)} \cup
             UNION {Integrate(y.v[i], c, k, Append(p, Itoa(i - 1)), id, <<>>,
                              IF i = 1 THEN <<>>
                              ELSE << <<c, k, Append(p, Itoa(i - 2))>> >>)
                        : i \in 1..Len(y.v)}
        ELSE {it(y)}

ItemOf(s, id) == CHOOSE i \in s.items : i.id = id

(* ytype_kind: Y_MAP or Y_ARRAY of a branch *)
ytype_kind(s, branch) == IF branch = RootId THEN "map" ELSE ItemOf(s, branch).c.t

(* the entries ever written under key of a map; the newest one is current *)
Entries(s, branch, key) == {i \in s.items : i.parent = branch /\ i.sub = <<key>>}

HasKey(s, branch, key) ==
    /\ Entries(s, branch, key) # {}
    /\ Newest(Entries(s, branch, key)).id \notin s.dels

MapKeys(s, branch) ==
    {i.sub[1] : i \in {j \in s.items : j.parent = branch /\ j.sub # <<>>
                                        /\ HasKey(s, branch, j.sub[1])}}

(* ymap_get: the current entry (HasKey must hold; the call returns NULL otherwise) *)
ymap_get(s, branch, key) == Newest(Entries(s, branch, key))

(* all elements of a list, tombstones included, in document order *)
RECURSIVE ArrayFrom(_, _, _)
RECURSIVE OrderKids(_, _, _)
ArrayFrom(s, branch, origin) ==
    OrderKids(s, branch, {i \in s.items : i.parent = branch /\ i.sub = <<>>
                                          /\ i.origin = origin})
OrderKids(s, branch, kids) ==
    IF kids = {} THEN <<>>
    ELSE LET top == Newest(kids)
         IN  <<top.id>> \o ArrayFrom(s, branch, <<top.id>>)
                        \o OrderKids(s, branch, kids \ {top})

Live(s, ids) == SelectSeq(ids, LAMBDA id : id \notin s.dels)

ArrayIds(s, branch) == Live(s, ArrayFrom(s, branch, <<>>))

yarray_len(s, branch) == Len(ArrayIds(s, branch))

(* yarray_get: the element at a 0-based index below the length *)
yarray_get(s, branch, index) == ItemOf(s, ArrayIds(s, branch)[index + 1])

(* ymap_insert: adds or updates *)
ymap_insert(s, client, branch, key, y) ==
    [s EXCEPT !.items = @ \cup Integrate(y, client, NextClock(s), <<>>,
                                         branch, <<key>>, <<>>)]

(* ymap_remove: 1 when the key was found and removed, 0 when not found *)
ymap_remove(s, branch, key) ==
    IF HasKey(s, branch, key)
    THEN [removed |-> 1, s |-> [s EXCEPT !.dels = @ \cup {ymap_get(s, branch, key).id}]]
    ELSE [removed |-> 0, s |-> s]

ymap_remove_all(s, branch) ==
    [s EXCEPT !.dels = @ \cup {ymap_get(s, branch, key).id : key \in MapKeys(s, branch)}]

(* yarray_insert_range of one value at index <= length *)
yarray_insert_range(s, client, branch, index, y) ==
    [s EXCEPT !.items = @ \cup
        Integrate(y, client, NextClock(s), <<>>, branch, <<>>,
                  IF index = 0 THEN <<>> ELSE <<ArrayIds(s, branch)[index]>>)]

(* yarray_remove_range of one element at index < length *)
yarray_remove_range(s, branch, index) ==
    [s EXCEPT !.dels = @ \cup {ArrayIds(s, branch)[index + 1]}]

(* ybranch_json followed by json.Unmarshal into interface{}: every number  *)
(* comes back as a float64, a container as map[string]interface{} or       *)
(* []interface{}                                                           *)
Unmarshal(c) ==
    CASE c.t = "null" -> GoNil
      [] c.t = "long" -> GoFloat(c.v)
      [] OTHER -> c

RECURSIVE BranchJSON(_, _)
BranchJSON(s, branch) ==
    IF ytype_kind(s, branch) = "map"
    THEN GoMap([key \in MapKeys(s, branch) |->
                  LET e == ymap_get(s, branch, key)
                  IN  IF e.c.t \in {"map", "list"} THEN BranchJSON(s, e.id)
                      ELSE Unmarshal(e.c)])
    ELSE LET ids == ArrayIds(s, branch)
         IN  GoList([n \in 1..Len(ids) |->
                  LET e == ItemOf(s, ids[n])
                  IN  IF e.c.t \in {"map", "list"} THEN BranchJSON(s, e.id)
                      ELSE Unmarshal(e.c)])

----------------------------------------------------------------------------
(* Map keys of the model, and the orders in which Go may range over a map  *)

Keys == {"a", "b", "l"}

(* two orders, so that every two keys are visited both ways round *)
KeyOrders == {<<"a", "b", "l">>, <<"l", "b", "a">>}

(* the keys of a map in the order one range statement visits them *)
RangeKeys(m, ord) == SelectSeq(ord, LAMBDA k : k \in DOMAIN m)

----------------------------------------------------------------------------
(* buildYInputRecursive: a Go value to a YInput, or an error               *)

RECURSIVE BuildErr(_, _)
RECURSIVE FirstErr(_, _)
(* the first error among the values of q, "" when every one converts *)
FirstErr(q, ord) ==
    IF q = <<>> THEN ""
    ELSE IF BuildErr(Head(q), ord) # "" THEN BuildErr(Head(q), ord)
    ELSE FirstErr(Tail(q), ord)
(* a conversion that takes the largest int64 for an overflow too *)
BuildErrAtMax(value, ord) ==
    CASE value.t \in {"nil", "bool", "int", "float", "str"} -> ""
      [] value.t = "uint" -> IF value.v >= MaxInt64 THEN "Overflow" ELSE ""
      [] value.t = "list" -> FirstErr(value.v, ord)
      [] value.t = "map" ->
            LET ks == RangeKeys(value.v, ord)
            IN  FirstErr([n \in 1..Len(ks) |-> value.v[ks[n]]], ord)
      [] OTHER -> "UnsupportedType"

BuildErr(value, ord) ==
    CASE value.t \in {"nil", "bool", "int", "float", "str"} -> ""
      [] value.t = "uint" -> IF value.v > MaxInt64 THEN "Overflow" ELSE ""
      [] value.t = "list" -> FirstErr(value.v, ord)
      [] value.t = "map" ->
            LET ks == RangeKeys(value.v, ord)
            IN  FirstErr([n \in 1..Len(ks) |-> value.v[ks[n]]], ord)
      [] OTHER -> "UnsupportedType"

RECURSIVE BuildInput(_)
BuildInput(value) ==
    CASE value.t = "nil" -> YNull
      [] value.t = "bool" -> value
      [] value.t = "int" -> [t |-> "long", v |-> value.v]
      [] value.t = "uint" -> [t |-> "long", v |-> value.v]
      [] value.t = "float" -> value
      [] value.t = "str" -> value
      [] value.t = "list" ->
            [t |-> "list", v |-> [n \in 1..Len(value.v) |-> BuildInput(value.v[n])]]
      [] value.t = "map" ->
            [t |-> "map", v |-> [k \in DOMAIN value.v |-> BuildInput(value.v[k])]]

buildYInputRecursive(value, ord) ==
    IF BuildErr(value, ord) # ""
    THEN [err |-> BuildErr(value, ord), y |-> YNull]
    ELSE [err |-> "", y |-> BuildInput(value)]

----------------------------------------------------------------------------
(* navigateToParent: walks all but the last segment from the root map.     *)
(* Returns the parent branch, the final key or index, and the number of   *)
(* YOutputs obtained on the way (freed by the caller on success, by        *)
(* cleanupOnError on failure).                                             *)

NavErr(e) == [err |-> e, parent |-> RootId, last |-> "", outs |-> 0, freed |-> 0]

(* a cleanup that returns the error and destroys nothing *)
cleanupOnErrorLeaking(e, outs) ==
    [err |-> e, parent |-> RootId, last |-> "", outs |-> outs, freed |-> 0]

(* cleanupOnError: destroys every output of outputsToFree, of which there *)
(* are outs, and returns the error; no output is held afterwards, freed   *)
(* is the number it destroyed                                             *)
cleanupOnError(e, outs) ==
    [err |-> e, parent |-> RootId, last |-> "", outs |-> 0, freed |-> outs]

RECURSIVE Walk(_, _, _, _)

(* a walk that takes the last element of a list for an index past its end *)
WalkClamping(s, parent, segs, outs) ==
    IF Len(segs) = 1
    THEN IF ytype_kind(s, parent) = "map"
         THEN [err |-> "", parent |-> parent, last |-> segs[1], outs |-> outs,
               freed |-> 0]
         ELSE IF IsUint(segs[1]) \/ segs[1] = "-"
         THEN [err |-> "", parent |-> parent, last |-> segs[1], outs |-> outs,
               freed |-> 0]
         ELSE cleanupOnError("InvalidPath", outs)
    ELSE LET seg == Head(segs) IN
         IF ytype_kind(s, parent) = "map"
         THEN IF ~HasKey(s, parent, seg) THEN cleanupOnError("NotFound", outs)
              ELSE LET out == ymap_get(s, parent, seg) IN
                   IF out.c.t \in {"map", "list"}
                   THEN Walk(s, out.id, Tail(segs), outs + 1)
                   ELSE cleanupOnError("TypeMismatch", outs + 1)
         ELSE IF ~IsUint(seg) THEN cleanupOnError("InvalidPath", outs)
              ELSE IF yarray_len(s, parent) = 0
              THEN cleanupOnError("IndexOutOfRange", outs)
              ELSE LET idx == IF ParseUint(seg) >= yarray_len(s, parent)
                              THEN yarray_len(s, parent) - 1 ELSE ParseUint(seg)
                       out == yarray_get(s, parent, idx) IN
                   IF out.c.t \in {"map", "list"}
                   THEN Walk(s, out.id, Tail(segs), outs + 1)
                   ELSE cleanupOnError("TypeMismatch", outs + 1)

(* the loop of navigateToParent and the return after it; outs is the      *)
(* number of outputs appended to outputsToFree so far                     *)
Walk(s, parent, segs, outs) ==
    IF Len(segs) = 1
    THEN IF ytype_kind(s, parent) = "map"
         THEN [err |-> "", parent |-> parent, last |-> segs[1], outs |-> outs,
               freed |-> 0]
         ELSE IF IsUint(segs[1]) \/ segs[1] = "-"
         THEN [err |-> "", parent |-> parent, last |-> segs[1], outs |-> outs,
               freed |-> 0]
         ELSE cleanupOnError("InvalidPath", outs)
    ELSE LET seg == Head(segs) IN
         IF ytype_kind(s, parent) = "map"
         THEN IF ~HasKey(s, parent, seg) THEN cleanupOnError("NotFound", outs)
              ELSE LET out == ymap_get(s, parent, seg) IN
                   IF out.c.t \in {"map", "list"}
                   THEN Walk(s, out.id, Tail(segs), outs + 1)
                   ELSE cleanupOnError("TypeMismatch", outs + 1)
         ELSE IF ~IsUint(seg) THEN cleanupOnError("InvalidPath", outs)
              ELSE IF ParseUint(seg) >= yarray_len(s, parent)
              THEN cleanupOnError("IndexOutOfRange", outs)
              ELSE LET out == yarray_get(s, parent, ParseUint(seg)) IN
                   IF out.c.t \in {"map", "list"}
                   THEN Walk(s, out.id, Tail(segs), outs + 1)
                   ELSE cleanupOnError("TypeMismatch", outs + 1)

navigateToParent(s, pathSegments) ==
    IF Len(pathSegments) = 0 THEN NavErr("InvalidPath")
    ELSE Walk(s, RootId, pathSegments, 0)

----------------------------------------------------------------------------
(* JSON Patch operations. path is strings.Split(op.Path, "/"): <<"">> is   *)
(* the empty path, <<"", "a", "0">> is "/a/0".                             *)

Op(type, path, value) == [op |-> type, path |-> path, value |-> value]

RootPath == <<"">>

OpOk(s) == [err |-> "", s |-> s]
OpErr(e, s) == [err |-> e, s |-> s]

(* the loop of a root add or replace: one ymap_insert per entry, in range  *)
(* order, returning at the first entry whose value does not convert        *)
RECURSIVE InsertEntries(_, _, _, _, _)
InsertEntries(s, client, ks, m, ord) ==
    IF ks = <<>> THEN OpOk(s)
    ELSE LET in == buildYInputRecursive(m[Head(ks)], ord) IN
         IF in.err # "" THEN OpErr(in.err, s)
         ELSE InsertEntries(ymap_insert(s, client, RootId, Head(ks), in.y),
                            client, Tail(ks), m, ord)

(* a root replace that clears the root before it looks at the value *)
applyRootOpClearingFirst(s, client, op, ord) ==
    CASE op.op = "replace" ->
            IF op.value.t \notin {"map", "nil"}
            THEN OpErr("TypeMismatch", ymap_remove_all(s, RootId))
            ELSE InsertEntries(ymap_remove_all(s, RootId), client,
                               RangeKeys(IF op.value.t = "map" THEN op.value.v ELSE <<>>,
                                         ord),
                               IF op.value.t = "map" THEN op.value.v ELSE <<>>, ord)
      [] op.op = "add" ->
            IF op.value.t # "map" THEN OpErr("TypeMismatch", s)
            ELSE InsertEntries(s, client, RangeKeys(op.value.v, ord), op.value.v, ord)
      [] OTHER -> OpErr("UnsupportedOperation", s)

(* a root replace that keeps the root keys it finds *)
applyRootOpKeeping(s, client, op, ord) ==
    CASE op.op \in {"replace", "add"} ->
            IF op.value.t \notin {"map", "nil"} THEN OpErr("TypeMismatch", s)
            ELSE IF op.value.t = "nil"
            THEN IF op.op = "add" THEN OpErr("TypeMismatch", s) ELSE OpOk(s)
            ELSE InsertEntries(s, client, RangeKeys(op.value.v, ord), op.value.v, ord)
      [] OTHER -> OpErr("UnsupportedOperation", s)

(* a root add that takes nil for the empty map, as root replace does *)
applyRootOpNilAsEmpty(s, client, op, ord) ==
    CASE op.op \in {"replace", "add"} ->
            IF op.value.t \notin {"map", "nil"} THEN OpErr("TypeMismatch", s)
            ELSE LET m == IF op.value.t = "map" THEN op.value.v ELSE <<>>
                 IN  InsertEntries(IF op.op = "replace" THEN ymap_remove_all(s, RootId)
                                   ELSE s,
                                   client, RangeKeys(m, ord), m, ord)
      [] OTHER -> OpErr("UnsupportedOperation", s)

(* a root add or replace that accepts a list: the root map is given up   *)
(* for it                                                                 *)
applyRootOpFromList(s, client, op, ord) ==
    IF op.op \in {"add", "replace"} /\ op.value.t = "list"
    THEN OpOk(ymap_remove_all(s, RootId))
    ELSE CASE op.op = "replace" ->
                 IF op.value.t \notin {"map", "nil"} THEN OpErr("TypeMismatch", s)
                 ELSE InsertEntries(ymap_remove_all(s, RootId), client,
                                    RangeKeys(IF op.value.t = "map" THEN op.value.v
                                              ELSE <<>>, ord),
                                    IF op.value.t = "map" THEN op.value.v ELSE <<>>, ord)
           [] op.op = "add" ->
                 IF op.value.t # "map" THEN OpErr("TypeMismatch", s)
                 ELSE InsertEntries(s, client, RangeKeys(op.value.v, ord),
                                    op.value.v, ord)
           [] OTHER -> OpErr("UnsupportedOperation", s)

applyRootOp(s, client, op, ord) ==
    CASE op.op = "replace" ->
            IF op.value.t \notin {"map", "nil"} THEN OpErr("TypeMismatch", s)
            ELSE LET m == IF op.value.t = "map" THEN op.value.v ELSE <<>>
                 IN  InsertEntries(ymap_remove_all(s, RootId), client,
                                   RangeKeys(m, ord), m, ord)
      [] op.op = "add" ->
            IF op.value.t # "map" THEN OpErr("TypeMismatch", s)
            ELSE InsertEntries(s, client, RangeKeys(op.value.v, ord), op.value.v, ord)
      [] OTHER -> OpErr("UnsupportedOperation", s)

(* an add that refuses a map key that is already there *)
applyAddIfAbsent(s, client, op, nav, ord) ==
    LET in == buildYInputRecursive(op.value, ord)
        arrayLen == yarray_len(s, nav.parent)
        targetIndex == IF nav.last = "-" THEN arrayLen ELSE ParseUint(nav.last)
    IN  IF in.err # "" THEN OpErr(in.err, s)
        ELSE IF ytype_kind(s, nav.parent) = "map"
        THEN IF HasKey(s, nav.parent, nav.last) THEN OpErr("AlreadyExists", s)
             ELSE OpOk(ymap_insert(s, client, nav.parent, nav.last, in.y))
        ELSE IF targetIndex > arrayLen THEN OpErr("IndexOutOfRange", s)
        ELSE OpOk(yarray_insert_range(s, client, nav.parent, targetIndex, in.y))

(* an add that takes only the indices below the length of the list *)
applyAddBelowLength(s, client, op, nav, ord) ==
    LET in == buildYInputRecursive(op.value, ord)
        arrayLen == yarray_len(s, nav.parent)
        targetIndex == IF nav.last = "-" THEN arrayLen ELSE ParseUint(nav.last)
    IN  IF in.err # "" THEN OpErr(in.err, s)
        ELSE IF ytype_kind(s, nav.parent) = "map"
        THEN OpOk(ymap_insert(s, client, nav.parent, nav.last, in.y))
        ELSE IF targetIndex >= arrayLen THEN OpErr("IndexOutOfRange", s)
        ELSE OpOk(yarray_insert_range(s, client, nav.parent, targetIndex, in.y))

applyAdd(s, client, op, nav, ord) ==
    LET in == buildYInputRecursive(op.value, ord)
        parentKind == ytype_kind(s, nav.parent)
        arrayLen == yarray_len(s, nav.parent)
        targetIndex == IF nav.last = "-" THEN arrayLen ELSE ParseUint(nav.last)
    IN  IF in.err # "" THEN OpErr(in.err, s)
        ELSE IF parentKind = "map"
        THEN OpOk(ymap_insert(s, client, nav.parent, nav.last, in.y))
        ELSE IF targetIndex > arrayLen THEN OpErr("IndexOutOfRange", s)
        ELSE OpOk(yarray_insert_range(s, client, nav.parent, targetIndex, in.y))

(* a remove that takes a missing map key for done *)
applyRemoveLenient(s, client, op, nav) ==
    IF ytype_kind(s, nav.parent) = "map"
    THEN OpOk(ymap_remove(s, nav.parent, nav.last).s)
    ELSE IF nav.last = "-" THEN OpErr("InvalidPath", s)
    ELSE IF ParseUint(nav.last) >= yarray_len(s, nav.parent)
    THEN OpErr("IndexOutOfRange", s)
    ELSE OpOk(yarray_remove_range(s, nav.parent, ParseUint(nav.last)))

(* a remove that takes the marker "-" for the last element of a list *)
applyRemoveAtMarker(s, client, op, nav) ==
    IF ytype_kind(s, nav.parent) = "map"
    THEN IF ymap_remove(s, nav.parent, nav.last).removed = 0
         THEN OpErr("NotFound", s)
         ELSE OpOk(ymap_remove(s, nav.parent, nav.last).s)
    ELSE IF nav.last = "-"
    THEN IF yarray_len(s, nav.parent) = 0 THEN OpErr("IndexOutOfRange", s)
         ELSE OpOk(yarray_remove_range(s, nav.parent, yarray_len(s, nav.parent) - 1))
    ELSE IF ParseUint(nav.last) >= yarray_len(s, nav.parent)
    THEN OpErr("IndexOutOfRange", s)
    ELSE OpOk(yarray_remove_range(s, nav.parent, ParseUint(nav.last)))

applyRemove(s, client, op, nav) ==
    LET parentKind == ytype_kind(s, nav.parent) IN
    IF parentKind = "map"
    THEN LET r == ymap_remove(s, nav.parent, nav.last) IN
         IF r.removed = 0 THEN OpErr("NotFound", s) ELSE OpOk(r.s)
    ELSE IF nav.last = "-" THEN OpErr("InvalidPath", s)
    ELSE IF ParseUint(nav.last) >= yarray_len(s, nav.parent)
    THEN OpErr("IndexOutOfRange", s)
    ELSE OpOk(yarray_remove_range(s, nav.parent, ParseUint(nav.last)))

(* a replace that creates the map key it does not find *)
applyReplaceUpsert(s, client, op, nav, ord) ==
    IF ytype_kind(s, nav.parent) = "map" THEN applyAdd(s, client, op, nav, ord)
    ELSE IF buildYInputRecursive(op.value, ord).err # ""
    THEN OpErr(buildYInputRecursive(op.value, ord).err, s)
    ELSE IF nav.last = "-" THEN OpErr("InvalidPath", s)
    ELSE IF ParseUint(nav.last) >= yarray_len(s, nav.parent)
    THEN OpErr("IndexOutOfRange", s)
    ELSE OpOk(yarray_insert_range(
                 yarray_remove_range(s, nav.parent, ParseUint(nav.last)),
                 client, nav.parent, ParseUint(nav.last),
                 buildYInputRecursive(op.value, ord).y))

applyReplace(s, client, op, nav, ord) ==
    LET in == buildYInputRecursive(op.value, ord)
        parentKind == ytype_kind(s, nav.parent)
    IN  IF in.err # "" THEN OpErr(in.err, s)
        ELSE IF parentKind = "map"
        THEN IF ~HasKey(s, nav.parent, nav.last) THEN OpErr("NotFound", s)
             ELSE OpOk(ymap_insert(s, client, nav.parent, nav.last, in.y))
        ELSE IF nav.last = "-" THEN OpErr("InvalidPath", s)
        ELSE IF ParseUint(nav.last) >= yarray_len(s, nav.parent)
        THEN OpErr("IndexOutOfRange", s)
        ELSE LET idx == ParseUint(nav.last) IN
             OpOk(yarray_insert_range(yarray_remove_range(s, nav.parent, idx),
                                      client, nav.parent, idx, in.y))

(* an applier that takes a path without the leading "/" as if it had one *)
applyOpUnanchored(s, client, op, ord) ==
    IF op.path = RootPath THEN applyRootOp(s, client, op, ord)
    ELSE LET nav == navigateToParent(s, IF Head(op.path) = "" THEN Tail(op.path)
                                        ELSE op.path) IN
         IF nav.err # "" THEN OpErr(nav.err, s)
         ELSE CASE op.op = "add" -> applyAdd(s, client, op, nav, ord)
                [] op.op = "remove" -> applyRemove(s, client, op, nav)
                [] op.op = "replace" -> applyReplace(s, client, op, nav, ord)
                [] OTHER -> OpErr("UnsupportedOperation", s)

(* an applier that takes an operation of a type it does not know as done *)
applyOpSkippingUnknown(s, client, op, ord) ==
    IF op.path = RootPath THEN applyRootOp(s, client, op, ord)
    ELSE IF Head(op.path) # "" THEN OpErr("InvalidPath", s)
    ELSE LET nav == navigateToParent(s, Tail(op.path)) IN
         IF nav.err # "" THEN OpErr(nav.err, s)
         ELSE CASE op.op = "add" -> applyAdd(s, client, op, nav, ord)
                [] op.op = "remove" -> applyRemove(s, client, op, nav)
                [] op.op = "replace" -> applyReplace(s, client, op, nav, ord)
                [] OTHER -> OpOk(s)

(* applyOp: one operation inside the write transaction *)
applyOp(s, client, op, ord) ==
    IF op.path = RootPath THEN applyRootOp(s, client, op, ord)
    ELSE IF Head(op.path) # "" THEN OpErr("InvalidPath", s)
    ELSE LET nav == navigateToParent(s, Tail(op.path)) IN
         IF nav.err # "" THEN OpErr(nav.err, s)
         ELSE CASE op.op = "add" -> applyAdd(s, client, op, nav, ord)
                [] op.op = "remove" -> applyRemove(s, client, op, nav)
                [] op.op = "replace" -> applyReplace(s, client, op, nav, ord)
                [] OTHER -> OpErr("UnsupportedOperation", s)

(* the segments applyOp hands to navigateToParent; called is FALSE when   *)
(* the operation returns before the navigation                            *)
applyOpSegments(op) ==
    IF op.path = RootPath \/ Head(op.path) # ""
    THEN [called |-> FALSE, segs |-> <<>>]
    ELSE [called |-> TRUE, segs |-> Tail(op.path)]

(* the outputs of the navigation that are still held when applyOp         *)
(* returns: after an error navigateToParent has cleaned up, after a       *)
(* success the deferred function destroys every output it returned        *)
applyOpOutputs(s, op) ==
    IF op.path = RootPath \/ Head(op.path) # "" THEN 0
    ELSE IF navigateToParent(s, Tail(op.path)).err # ""
    THEN navigateToParent(s, Tail(op.path)).outs
    ELSE 0

(* ------------------------------------------------------------------ *)
(* The resources of one ApplyOperations call, as the sequence of the   *)
(* events on them.  An event names what happened (e), the function that *)
(* did it (by), the 1-based position of the operation in the batch (op) *)
(* and the number of the handle or of the allocation within that        *)
(* operation (h).                                                       *)

Ev(e, by, n, h) == [e |-> e, by |-> by, op |-> n, h |-> h]

Evs(e, by, n, count) == [i \in 1..count |-> Ev(e, by, n, i)]

(* the entries of a map or list that buildYInputRecursive converts: it   *)
(* stops at the first one that fails, which it has started               *)
RECURSIVE Started(_, _)
Started(q, ord) ==
    IF q = <<>> THEN 0
    ELSE IF BuildErr(Head(q), ord) # "" THEN 1
    ELSE 1 + Started(Tail(q), ord)

(* the number of cAllocations buildYInputRecursive has appended when it  *)
(* returns: one per string, one array per list after its elements, one   *)
(* key string per entry of a map and two arrays after its entries; what  *)
(* was appended before an error stays in the slice                       *)
RECURSIVE buildYInputAllocations(_, _)
RECURSIVE AllocationsIn(_, _)

AllocationsIn(q, ord) ==
    IF q = <<>> THEN 0
    ELSE buildYInputAllocations(Head(q), ord)
            + IF BuildErr(Head(q), ord) # "" THEN 0
              ELSE AllocationsIn(Tail(q), ord)

buildYInputAllocations(value, ord) ==
    CASE value.t = "str" -> 1
      [] value.t = "list" ->
            AllocationsIn(value.v, ord)
                + IF FirstErr(value.v, ord) # "" THEN 0 ELSE 1
      [] value.t = "map" ->
            LET ks == RangeKeys(value.v, ord)
                vals == [n \in 1..Len(ks) |-> value.v[ks[n]]]
            IN  IF ks = <<>> THEN 2
                ELSE AllocationsIn(vals, ord) + Started(vals, ord)
                        + IF FirstErr(vals, ord) # "" THEN 0 ELSE 2
      [] OTHER -> 0

(* a loop that stops above index 0 and leaves the first allocation *)
freeAllocationsButFirst(n, count) ==
    [i \in 1..(IF count = 0 THEN 0 ELSE count - 1) |->
        Ev("free", "applyOp", n, count + 1 - i)]

(* freeAllocations: frees every allocation of the slice, last one first *)
freeAllocations(n, count) ==
    [i \in 1..count |-> Ev("free", "applyOp", n, count + 1 - i)]

(* the allocations and the ymap_insert calls of the loop of a root       *)
(* operation, entry by entry; base is the number of allocations so far   *)
RECURSIVE RootEntryEvents(_, _, _, _, _)
RootEntryEvents(ks, m, n, base, ord) ==
    IF ks = <<>> THEN <<>>
    ELSE LET count == buildYInputAllocations(m[Head(ks)], ord) IN
         [i \in 1..count |-> Ev("alloc", "applyOp", n, base + i)]
            \o IF BuildErr(m[Head(ks)], ord) # "" THEN <<>>
               ELSE <<Ev("use", "applyOp", n, 0)>>
                       \o RootEntryEvents(Tail(ks), m, n, base + count, ord)

Allocated(E) == Len(SelectSeq(E, LAMBDA x : x.e = "alloc"))

(* applyOp as the events of the operation at position n of the batch:    *)
(* the navigation obtains its outputs and destroys them itself when it   *)
(* fails; after a successful navigation the conversion allocates, the    *)
(* engine call uses the input, and on return the deferred functions run  *)
(* last registered first: the outputs are destroyed, then the            *)
(* allocations are freed                                                 *)
applyOpEvents(s, client, op, n, ord) ==
    IF op.path = RootPath
    THEN IF \/ op.op = "replace" /\ op.value.t = "map"
            \/ op.op = "add" /\ op.value.t = "map"
         THEN LET body == RootEntryEvents(RangeKeys(op.value.v, ord),
                                          op.value.v, n, 0, ord)
              IN  body \o freeAllocations(n, Allocated(body))
         ELSE <<>>
    ELSE IF Head(op.path) # "" THEN <<>>
    ELSE LET nav == navigateToParent(s, Tail(op.path)) IN
         IF nav.err # ""
         THEN Evs("get", "navigateToParent", n, nav.outs + nav.freed)
                 \o Evs("destroy", "navigateToParent", n, nav.freed)
                 \o <<Ev("navErr", "navigateToParent", n, 0)>>
         ELSE Evs("get", "navigateToParent", n, nav.outs)
                 \o <<Ev("navOk", "navigateToParent", n, 0)>>
                 \o ( IF op.op \in {"add", "replace"}
                      THEN Evs("alloc", "applyOp", n,
                               buildYInputAllocations(op.value, ord))
                              \o IF applyOp(s, client, op, ord).err = ""
                                 THEN <<Ev("use", "applyOp", n, 0)>>
                                 ELSE <<>>
                      ELSE <<>> )
                 \o Evs("destroy", "applyOp", n, nav.outs)
                 \o ( IF op.op \in {"add", "replace"}
                      THEN freeAllocations(n,
                               buildYInputAllocations(op.value, ord))
                      ELSE <<>> )

(* the events of the loop of ApplyOperations, which returns at the first *)
(* operation that fails                                                  *)
RECURSIVE ApplyLoopEvents(_, _, _, _, _)
ApplyLoopEvents(s, client, ops, n, ord) ==
    IF n > Len(ops) THEN <<>>
    ELSE applyOpEvents(s, client, ops[n], n, ord)
            \o IF applyOp(s, client, ops[n], ord).err # "" THEN <<>>
               ELSE ApplyLoopEvents(applyOp(s, client, ops[n], ord).s,
                                    client, ops, n + 1, ord)

(* ApplyOperations with its write transaction open: the deferred commit  *)
(* runs when the loop has returned                                       *)
ApplyOperationsEvents(s, client, ops, ord) ==
    <<Ev("openW", "ApplyOperations", 0, 0)>>
        \o ApplyLoopEvents(s, client, ops, 1, ord)
        \o <<Ev("commitW", "ApplyOperations", 0, 0)>>

(* the loop of ApplyOperations: returns at the first error; k is the       *)
(* 1-based position of the operation that failed, 0 when none did          *)
RECURSIVE ApplyLoop(_, _, _, _, _)

(* a loop that reports the first error but goes on with the rest of the batch *)
ApplyLoopContinuing(s, client, ops, n, ord) ==
    IF n > Len(ops) THEN [err |-> "", s |-> s, k |-> 0]
    ELSE LET r == applyOp(s, client, ops[n], ord) IN
         IF r.err # ""
         THEN [ApplyLoop(r.s, client, ops, n + 1, ord) EXCEPT !.err = r.err, !.k = n]
         ELSE ApplyLoop(r.s, client, ops, n + 1, ord)

(* a loop that applies the batch from its last operation to its first *)
ApplyLoopReversed(s, client, ops, n, ord) ==
    IF n > Len(ops) THEN [err |-> "", s |-> s, k |-> 0]
    ELSE LET r == applyOp(s, client, ops[Len(ops) + 1 - n], ord) IN
         IF r.err # "" THEN [err |-> r.err, s |-> r.s, k |-> Len(ops) + 1 - n]
         ELSE ApplyLoop(r.s, client, ops, n + 1, ord)

ApplyLoop(s, client, ops, n, ord) ==
    IF n > Len(ops) THEN [err |-> "", s |-> s, k |-> 0]
    ELSE LET r == applyOp(s, client, ops[n], ord) IN
         IF r.err # "" THEN [err |-> r.err, s |-> r.s, k |-> n]
         ELSE ApplyLoop(r.s, client, ops, n + 1, ord)

(* a call that opened its transaction and deferred the commit: every       *)
(* return after the defer statement commits once                           *)
DeferredOnSuccess(kind, r) ==
    IF r.err = ""
    THEN [r EXCEPT !.trace = <<"open" \o kind>> \o @ \o <<"commit" \o kind>>]
    ELSE [r EXCEPT !.trace = <<"open" \o kind>> \o @]

Deferred(kind, r) ==
    [r EXCEPT !.trace = <<"open" \o kind>> \o @ \o <<"commit" \o kind>>]

(* a call that goes on to the loop without a transaction *)
ApplyOperationsUngranted(s, client, ops, ord, open) ==
    IF ~open
    THEN [err |-> "NoTransaction", s |-> ApplyLoop(s, client, ops, 1, ord).s,
          k |-> 0, trace |-> <<>>]
    ELSE Deferred("W", [err |-> ApplyLoop(s, client, ops, 1, ord).err,
                        s |-> ApplyLoop(s, client, ops, 1, ord).s,
                        k |-> ApplyLoop(s, client, ops, 1, ord).k, trace |-> <<>>])

(* ApplyOperations: open holds when the engine grants the write transaction *)
ApplyOperations(s, client, ops, ord, open) ==
    IF ~open
    THEN [err |-> "NoTransaction", s |-> s, k |-> 0, trace |-> <<>>]
    ELSE LET r == ApplyLoop(s, client, ops, 1, ord)
         IN  Deferred("W", [err |-> r.err, s |-> r.s, k |-> r.k, trace |-> <<>>])

(* ToJSON: the root map as map[string]interface{} *)
ToJSON(s, open) ==
    IF ~open
    THEN [err |-> "NoTransaction", json |-> GoNil, trace |-> <<>>]
    ELSE Deferred("R", [err |-> "", json |-> BranchJSON(s, RootId), trace |-> <<>>])

GetState(s, open) == ToJSON(s, open)

----------------------------------------------------------------------------
(* jsonpatch.CreateJSONPatch(modified, current) of github.com/snorwin/      *)
(* jsonpatch, the differ UpdateToState calls: a reflective walk of both    *)
(* values in step. It emits add, remove and replace only; maps are walked  *)
(* key by key, slices index by index.                                      *)

(* JSONPointer.Add: the segment is escaped as RFC 6901 says *)
EscapeSegment(key) ==
    CASE key = "x/y" -> "x~1y"
      [] key = "x~y" -> "x~0y"
      [] key = "x~1y" -> "x~01y"
      [] key = "x~0y" -> "x~00y"
      [] OTHER -> key

PointerAdd(pointer, key) == Append(pointer, EscapeSegment(key))

Patch(ops) == [err |-> "", ops |-> ops]
PatchErr(e) == [err |-> e, ops |-> <<>>]

Max(a, b) == IF a > b THEN a ELSE b

RECURSIVE walk(_, _, _, _)
RECURSIVE walkKeys(_, _, _, _, _)
RECURSIVE walkItems(_, _, _, _, _)

(* a differ that replaces a map that has changed as a whole *)
processMapReplacing(modified, current, pointer, ord) ==
    IF modified = current THEN Patch(<<>>)
    ELSE Patch(<<Op("replace", pointer, modified)>>)

(* processMap *)
processMap(modified, current, pointer, ord) ==
    IF DOMAIN modified.v # {} /\ DOMAIN current.v = {}
    THEN Patch(<<Op("add", pointer, modified)>>)
    ELSE LET w == walkKeys(RangeKeys(modified.v, ord), modified, current, pointer, ord)
             gone == SelectSeq(RangeKeys(current.v, ord),
                               LAMBDA k : k \notin DOMAIN modified.v)
         IN  IF w.err # "" THEN w
             ELSE Patch(w.ops \o [n \in 1..Len(gone) |->
                                    Op("remove", PointerAdd(pointer, gone[n]), GoNil)])

(* the first loop of processMap, over the keys of modified *)
walkKeys(ks, modified, current, pointer, ord) ==
    IF ks = <<>> THEN Patch(<<>>)
    ELSE LET key == Head(ks)
             this == IF key \notin DOMAIN current.v
                     THEN Patch(<<Op("add", PointerAdd(pointer, key), modified.v[key])>>)
                     ELSE walk(modified.v[key], current.v[key],
                               PointerAdd(pointer, key), ord)
         IN  IF this.err # "" THEN this
             ELSE LET rest == walkKeys(Tail(ks), modified, current, pointer, ord)
                  IN  IF rest.err # "" THEN rest ELSE Patch(this.ops \o rest.ops)

(* processSlice *)
processSlice(modified, current, pointer, ord) ==
    IF Len(modified.v) > 0 /\ Len(current.v) = 0
    THEN Patch(<<Op("add", pointer, modified)>>)
    ELSE walkItems(0, modified, current, pointer, ord)

(* the loop of processSlice from index i on *)
walkItems(i, modified, current, pointer, ord) ==
    IF i >= Max(Len(modified.v), Len(current.v)) THEN Patch(<<>>)
    ELSE LET this ==
               IF i < Len(modified.v) /\ i < Len(current.v)
               THEN walk(modified.v[i + 1], current.v[i + 1],
                         PointerAdd(pointer, Itoa(i)), ord)
               ELSE IF i < Len(modified.v)
               THEN Patch(<<Op("add", PointerAdd(pointer, Itoa(i)), modified.v[i + 1])>>)
               ELSE Patch(<<Op("remove", PointerAdd(pointer, Itoa(Len(modified.v))),
                               GoNil)>>)
         IN  IF this.err # "" THEN this
             ELSE LET rest == walkItems(i + 1, modified, current, pointer, ord)
                  IN  IF rest.err # "" THEN rest ELSE Patch(this.ops \o rest.ops)

walk(modified, current, pointer, ord) ==
    IF modified.t # current.t THEN PatchErr("KindMismatch")
    ELSE CASE modified.t = "map" -> processMap(modified, current, pointer, ord)
           [] modified.t = "list" -> processSlice(modified, current, pointer, ord)
           [] modified.t = "str" ->
                IF modified.v = current.v THEN Patch(<<>>)
                ELSE IF modified.v = ""
                THEN Patch(<<Op("remove", pointer, GoNil)>>)
                ELSE IF current.v = ""
                THEN Patch(<<Op("add", pointer, modified)>>)
                ELSE Patch(<<Op("replace", pointer, modified)>>)
           [] modified.t \in {"int", "uint", "float", "bool"} ->
                IF modified.v = current.v THEN Patch(<<>>)
                ELSE Patch(<<Op("replace", pointer, modified)>>)
           [] modified.t = "nil" -> Patch(<<>>)
           [] OTHER -> PatchErr("UnsupportedKind")

CreateJSONPatch(modified, current, ord) == walk(modified, current, RootPath, ord)

----------------------------------------------------------------------------
(* UpdateToState: read the state, diff it against newState, apply the      *)
(* patch. patch is the list that was computed, ops the list returned.      *)

(* a return that hands the computed list back with the error as well *)
UpdateResultKeepingOps(s, cur, patch, app) ==
    IF cur.err # ""
    THEN [err |-> cur.err, ops |-> <<>>, patch |-> <<>>, s |-> s, k |-> 0,
          trace |-> cur.trace]
    ELSE IF patch.err # ""
    THEN [err |-> patch.err, ops |-> <<>>, patch |-> <<>>, s |-> s, k |-> 0,
          trace |-> cur.trace]
    ELSE [err |-> app.err, ops |-> patch.ops, patch |-> patch.ops, s |-> app.s,
          k |-> app.k, trace |-> cur.trace \o app.trace]

(* returns of a variant that commits the read transaction of GetState     *)
(* only when UpdateToState returns                                        *)
UpdateResultHoldingRead(s, cur, patch, app) ==
    IF cur.err # ""
    THEN [err |-> cur.err, ops |-> <<>>, patch |-> <<>>, s |-> s, k |-> 0,
          trace |-> cur.trace]
    ELSE IF patch.err # ""
    THEN [err |-> patch.err, ops |-> <<>>, patch |-> <<>>, s |-> s, k |-> 0,
          trace |-> cur.trace]
    ELSE [err |-> app.err, ops |-> IF app.err = "" THEN patch.ops ELSE <<>>,
          patch |-> patch.ops, s |-> app.s, k |-> app.k,
          trace |-> <<"openR">> \o app.trace \o <<"commitR">>]

(* the returns of UpdateToState, given what its three calls returned *)
UpdateResult(s, cur, patch, app) ==
    IF cur.err # ""
    THEN [err |-> cur.err, ops |-> <<>>, patch |-> <<>>, s |-> s, k |-> 0,
          trace |-> cur.trace]
    ELSE IF patch.err # ""
    THEN [err |-> patch.err, ops |-> <<>>, patch |-> <<>>, s |-> s, k |-> 0,
          trace |-> cur.trace]
    ELSE IF app.err # ""
    THEN [err |-> app.err, ops |-> <<>>, patch |-> patch.ops, s |-> app.s,
          k |-> app.k, trace |-> cur.trace \o app.trace]
    ELSE [err |-> "", ops |-> patch.ops, patch |-> patch.ops, s |-> app.s,
          k |-> 0, trace |-> cur.trace \o app.trace]

(* UpdateToState from the call of ApplyOperations on *)
UpdateApply(s, client, cur, patch, ord, open) ==
    UpdateResult(s, cur, patch, ApplyOperations(s, client, patch.ops, ord, open))

(* a diff taken against the empty state instead of the current one *)
UpdateDiffFromEmpty(s, client, newState, cur, ord, open) ==
    UpdateApply(s, client, cur, CreateJSONPatch(newState, EmptyMap, ord), ord, open)

(* UpdateToState from the call of CreateJSONPatch on *)
UpdateDiff(s, client, newState, cur, ord, open) ==
    UpdateApply(s, client, cur, CreateJSONPatch(newState, cur.json, ord), ord, open)

UpdateToState(s, client, newState, ord, open) ==
    UpdateDiff(s, client, newState, GetState(s, open), ord, open)

----------------------------------------------------------------------------
(* State vectors: the update (format v1) that carries a document's history *)

Clients == {1, 2}

(* the state vector of a document: per client, the clock it has seen up to *)
StateVector(s) ==
    [c \in Clients |-> SetMax({0} \cup {i.id[2] : i \in {j \in s.items : j.id[1] = c}})]

NoStateVector == [c \in Clients |-> 0]

(* ytransaction_state_diff_v1: what the document holds beyond sv *)
ytransaction_state_diff_v1(s, sv) ==
    [valid |-> TRUE, items |-> {i \in s.items : i.id[2] > sv[i.id[1]]}, dels |-> s.dels]

(* bytes that are no update *)
Corrupt == [valid |-> FALSE, items |-> {}, dels |-> {}]

(* an apply that takes the update's delete set in place of the document's *)
ytransaction_apply_replacing_deletes(s, data) ==
    IF ~data.valid THEN [code |-> 1, s |-> s]
    ELSE [code |-> 0, s |-> [items |-> s.items \cup data.items, dels |-> data.dels]]

(* ytransaction_apply: merges the update; a non-zero code when the bytes   *)
(* do not decode                                                           *)
ytransaction_apply(s, data) ==
    IF ~data.valid THEN [code |-> 1, s |-> s]
    ELSE [code |-> 0, s |-> [items |-> s.items \cup data.items,
                             dels |-> s.dels \cup data.dels]]

(* an encoding relative to the document's own state vector *)
GetStateVectorSinceOwn(s, open) ==
    IF ~open THEN [err |-> "NoTransaction", data |-> Corrupt, trace |-> <<>>]
    ELSE Deferred("R", [err |-> "", data |-> ytransaction_state_diff_v1(s, StateVector(s)),
                        trace |-> <<>>])

(* GetStateVector: a nil state vector encodes the whole document *)
GetStateVector(s, open) ==
    IF ~open THEN [err |-> "NoTransaction", data |-> Corrupt, trace |-> <<>>]
    ELSE Deferred("R", [err |-> "", data |-> ytransaction_state_diff_v1(s, NoStateVector),
                        trace |-> <<>>])

(* an apply that replaces the document's history by the update's *)
ApplyStateVectorOverwrite(s, stateData, open) ==
    IF ~open THEN [err |-> "NoTransaction", s |-> s, trace |-> <<>>]
    ELSE IF ~stateData.valid
    THEN Deferred("W", [err |-> "EngineFailure", s |-> s, trace |-> <<>>])
    ELSE Deferred("W", [err |-> "", trace |-> <<>>,
                        s |-> [items |-> stateData.items, dels |-> stateData.dels]])

(* ApplyStateVector: merges the bytes into the document *)
ApplyStateVector(s, stateData, open) ==
    IF ~open THEN [err |-> "NoTransaction", s |-> s, trace |-> <<>>]
    ELSE LET r == ytransaction_apply(s, stateData)
         IN  Deferred("W", [err |-> IF r.code # 0 THEN "EngineFailure" ELSE "",
                            s |-> r.s, trace |-> <<>>])

----------------------------------------------------------------------------
(* autoSyncDoc.js: the same document over Yjs. applyOperations supports    *)
(* add, remove, replace, move and copy; an error is a thrown Error, named  *)
(* here after its message. A JS number is a float; undefined reads as nil. *)

JsOp(type, path, from, value) ==
    [op |-> type, path |-> path, from |-> from, value |-> value]

(* path.split('/').filter(s => s) *)
jsSegments(path) == SelectSeq(path, LAMBDA seg : seg # "")

(* segments.slice(0, -1) and segments[segments.length - 1] *)
jsParentSegments(segs) == IF segs = <<>> THEN <<>> ELSE SubSeq(segs, 1, Len(segs) - 1)
jsLastSegment(segs) == IF segs = <<>> THEN "undefined" ELSE segs[Len(segs)]

(* path.startsWith(fromPath + '/') on the split pointers *)
startsWith(path, fromPath) ==
    Len(path) > Len(fromPath) /\ SubSeq(path, 1, Len(fromPath)) = fromPath

(* Number(segment) is NaN, for which every comparison is false *)
jsIsNaN(seg) == ~IsUint(seg)

(* parent.get(segment) or parent.get(Number(segment)): <<item>>, or <<>> *)
(* for undefined                                                         *)
jsGet(s, parent, seg) ==
    IF ytype_kind(s, parent) = "list"
    THEN IF ~jsIsNaN(seg) /\ ParseUint(seg) < yarray_len(s, parent)
         THEN <<yarray_get(s, parent, ParseUint(seg))>>
         ELSE <<>>
    ELSE IF HasKey(s, parent, seg) THEN <<ymap_get(s, parent, seg)>> ELSE <<>>

(* the navigation loop: every segment must name a Y.Map or a Y.Array *)
RECURSIVE jsNavigate(_, _, _)
jsNavigate(s, parent, segs) ==
    IF segs = <<>> THEN [err |-> "", parent |-> parent]
    ELSE LET next == jsGet(s, parent, Head(segs)) IN
         IF next = <<>> THEN [err |-> "InvalidContainer", parent |-> parent]
         ELSE IF next[1].c.t \notin {"map", "list"}
         THEN [err |-> "InvalidContainer", parent |-> parent]
         ELSE jsNavigate(s, next[1].id, Tail(segs))

(* value.toJSON() of a Yjs type, the stored value of a primitive *)
jsValue(s, got) ==
    IF got = <<>> THEN GoNil
    ELSE IF got[1].c.t \in {"map", "list"} THEN BranchJSON(s, got[1].id)
    ELSE Unmarshal(got[1].c)

(* createNestedYType *)
createNestedYType(value) == BuildInput(value)

(* parent.insert(key, [val]) after its bounds check, or parent.set(key, val); *)
(* Y.Array.insert with NaN finds no position and inserts at the start         *)
jsInsert(s, client, parent, key, val) ==
    IF ytype_kind(s, parent) = "list"
    THEN IF ~jsIsNaN(key) /\ ParseUint(key) > yarray_len(s, parent)
         THEN OpErr("IndexOutOfRange", s)
         ELSE OpOk(yarray_insert_range(s, client, parent,
                                       IF jsIsNaN(key) THEN 0 ELSE ParseUint(key), val))
    ELSE OpOk(ymap_insert(s, client, parent, key, val))

(* the existence check of remove, replace, move and copy on the source *)
jsMissing(s, parent, key) ==
    IF ytype_kind(s, parent) = "list"
    THEN IF ~jsIsNaN(key) /\ ParseUint(key) >= yarray_len(s, parent)
         THEN "IndexOutOfRange" ELSE ""
    ELSE IF ~HasKey(s, parent, key) THEN "NotFound" ELSE ""

(* parent.delete(key, 1) or parent.delete(key) once the check has passed;  *)
(* Y.Array.delete with NaN deletes from the start and throws on an empty   *)
(* array                                                                   *)
jsDelete(s, parent, key) ==
    IF ytype_kind(s, parent) = "list"
    THEN IF yarray_len(s, parent) = 0 THEN OpErr("IndexOutOfRange", s)
         ELSE OpOk(yarray_remove_range(s, parent,
                                       IF jsIsNaN(key) THEN 0 ELSE ParseUint(key)))
    ELSE OpOk(ymap_remove(s, parent, key).s)

(* case 'add' *)
jsAdd(s, client, op, parent, key) ==
    jsInsert(s, client, parent, key, createNestedYType(op.value))

(* case 'remove' *)
jsRemove(s, parent, key) ==
    IF jsMissing(s, parent, key) # "" THEN OpErr(jsMissing(s, parent, key), s)
    ELSE jsDelete(s, parent, key)

(* an insertion that follows a deletion: a throw keeps the deletion *)
jsThenInsert(del, client, parent, key, val) ==
    IF del.err # "" THEN del ELSE jsInsert(del.s, client, parent, key, val)

(* case 'replace': an array element is deleted, then inserted *)
jsReplace(s, client, op, parent, key) ==
    IF jsMissing(s, parent, key) # "" THEN OpErr(jsMissing(s, parent, key), s)
    ELSE IF ytype_kind(s, parent) = "list"
    THEN jsThenInsert(jsDelete(s, parent, key), client, parent, key,
                      createNestedYType(op.value))
    ELSE OpOk(ymap_insert(s, client, parent, key, createNestedYType(op.value)))

(* the source of a move or copy: its parent container and its key *)
jsSource(s, op) == jsNavigate(s, RootId, jsParentSegments(jsSegments(op.from)))
jsSourceKey(op) == jsLastSegment(jsSegments(op.from))

(* a move that checks the destination index before it deletes the source *)
jsMoveFromCheckingFirst(s, client, srcParent, srcKey, parent, key) ==
    IF jsMissing(s, srcParent, srcKey) # ""
    THEN OpErr(jsMissing(s, srcParent, srcKey), s)
    ELSE IF jsInsert(s, client, parent, key, YNull).err # ""
    THEN OpErr(jsInsert(s, client, parent, key, YNull).err, s)
    ELSE jsThenInsert(jsDelete(s, srcParent, srcKey), client, parent, key,
                      createNestedYType(jsValue(s, jsGet(s, srcParent, srcKey))))

(* the source read, deleted, rebuilt and inserted at the destination, whose *)
(* parent was resolved before the deletion                                 *)
jsMoveFrom(s, client, srcParent, srcKey, parent, key) ==
    IF jsMissing(s, srcParent, srcKey) # ""
    THEN OpErr(jsMissing(s, srcParent, srcKey), s)
    ELSE jsThenInsert(jsDelete(s, srcParent, srcKey), client, parent, key,
                      createNestedYType(jsValue(s, jsGet(s, srcParent, srcKey))))

(* a move that checks nothing before it reads the source *)
jsMoveUnchecked(s, client, op, parent, key) ==
    IF jsSource(s, op).err # "" THEN OpErr(jsSource(s, op).err, s)
    ELSE jsMoveFrom(s, client, jsSource(s, op).parent, jsSourceKey(op), parent, key)

(* a move that also rejects a destination equal to its source *)
jsMoveRejectingSame(s, client, op, parent, key) ==
    IF op.path = op.from \/ startsWith(op.path, op.from)
    THEN OpErr("InvalidOperation", s)
    ELSE IF jsSource(s, op).err # "" THEN OpErr(jsSource(s, op).err, s)
    ELSE jsMoveFrom(s, client, jsSource(s, op).parent, jsSourceKey(op), parent, key)

(* case 'move' *)
jsMove(s, client, op, parent, key) ==
    IF op.path # op.from /\ startsWith(op.path, op.from)
    THEN OpErr("InvalidOperation", s)
    ELSE IF jsSource(s, op).err # "" THEN OpErr(jsSource(s, op).err, s)
    ELSE jsMoveFrom(s, client, jsSource(s, op).parent, jsSourceKey(op), parent, key)

(* a copy that takes the value out of the source, as move does *)
jsCopyFromRemoving(s, client, srcParent, srcKey, parent, key) ==
    jsMoveFrom(s, client, srcParent, srcKey, parent, key)

(* the source read, rebuilt and inserted at the destination *)
jsCopyFrom(s, client, srcParent, srcKey, parent, key) ==
    IF jsMissing(s, srcParent, srcKey) # ""
    THEN OpErr(jsMissing(s, srcParent, srcKey), s)
    ELSE jsInsert(s, client, parent, key,
                  createNestedYType(jsValue(s, jsGet(s, srcParent, srcKey))))

(* case 'copy' *)
jsCopy(s, client, op, parent, key) ==
    IF jsSource(s, op).err # "" THEN OpErr(jsSource(s, op).err, s)
    ELSE jsCopyFrom(s, client, jsSource(s, op).parent, jsSourceKey(op), parent, key)

(* the switch on the operation type; an unknown type is logged and skipped *)
jsSwitch(s, client, op, parent, key) ==
    CASE op.op = "add" -> jsAdd(s, client, op, parent, key)
      [] op.op = "remove" -> jsRemove(s, parent, key)
      [] op.op = "replace" -> jsReplace(s, client, op, parent, key)
      [] op.op = "move" -> jsMove(s, client, op, parent, key)
      [] op.op = "copy" -> jsCopy(s, client, op, parent, key)
      [] OTHER -> OpOk(s)

(* one round of the loop of applyOperations *)
jsApplyOp(s, client, op) ==
    IF jsNavigate(s, RootId, jsParentSegments(jsSegments(op.path))).err # ""
    THEN OpErr("InvalidContainer", s)
    ELSE jsSwitch(s, client, op,
                  jsNavigate(s, RootId, jsParentSegments(jsSegments(op.path))).parent,
                  jsLastSegment(jsSegments(op.path)))

(* the loop inside yDoc.transact: a throw ends it, what was done stays *)
RECURSIVE jsApplyLoop(_, _, _, _)
jsApplyLoop(s, client, ops, n) ==
    IF n > Len(ops) THEN [err |-> "", s |-> s, k |-> 0]
    ELSE IF jsApplyOp(s, client, ops[n]).err # ""
    THEN [err |-> jsApplyOp(s, client, ops[n]).err,
          s |-> jsApplyOp(s, client, ops[n]).s, k |-> n]
    ELSE jsApplyLoop(jsApplyOp(s, client, ops[n]).s, client, ops, n + 1)

(* applyOperations of autoSyncDoc.js *)
jsApplyOperations(s, client, ops) == jsApplyLoop(s, client, ops, 1)

----------------------------------------------------------------------------
(* Inputs of the model *)

BigUint == MaxInt64 + 1     \* the smallest uint64 that overflows int64

M1(k, x) == GoMap([i \in {k} |-> x])
M2(k1, x1, k2, x2) == GoMap([i \in {k1, k2} |-> IF i = k1 THEN x1 ELSE x2])

(* target states given to UpdateToState *)
Targets ==
    { EmptyMap,
      M1("a", GoStr("x")),
      M1("a", GoStr("")),
      M1("a", GoInt(1)),
      M1("a", GoFloat(1)),
      M2("a", GoFloat(2), "b", GoUint(BigUint)),
      M2("a", GoFloat(1), "l", GoList(<<EmptyMap>>)),
      M1("l", GoList(<<M1("a", GoFloat(1))>>)),
      M1("l", GoList(<<GoFloat(1), GoFloat(2)>>)),
      M1("a", M1("b", GoNil)) }

(* batches given to ApplyOperations *)
Batches ==
    { <<>>,
      <<Op("add", <<"", "a">>, GoFloat(1))>>,
      <<Op("add", <<"", "a">>, GoFloat(1)),
        Op("add", <<"", "b">>, GoUint(BigUint)),
        Op("add", <<"", "l">>, GoList(<<GoFloat(1)>>))>>,
      <<Op("add", <<"", "l">>, GoList(<<GoFloat(1)>>)),
        Op("add", <<"", "l", "-">>, GoBool(TRUE)),
        Op("remove", <<"", "l", "0">>, GoNil)>>,
      <<Op("remove", <<"", "a">>, GoNil),
        Op("add", <<"", "b">>, GoFloat(2))>>,
      <<Op("replace", <<"", "a">>, GoStr("x")),
        Op("add", <<"", "l", "2">>, GoNil)>>,
      <<Op("add", RootPath, M2("a", GoInt(2), "b", GoUint(BigUint)))>>,
      <<Op("replace", RootPath, M1("b", GoFloat(2))),
        Op("remove", <<"", "a">>, GoNil)>>,
      <<Op("move", <<"", "b">>, GoNil)>>,
      <<Op("add", <<"", "l", "0">>, GoStr("x"))>>,
      <<Op("replace", <<"", "l", "0">>, GoStr("x"))>>,
      <<Op("replace", RootPath, GoNil),
        Op("add", RootPath, GoNil)>>,
      <<Op("remove", RootPath, GoNil)>>,
      <<Op("add", <<"", "l", "0", "a">>, GoFloat(1))>>,
      <<Op("replace", RootPath, GoList(<<GoFloat(1)>>))>>,
      <<Op("remove", <<"", "l", "-">>, GoNil)>>,
      <<Op("add", <<"a">>, GoFloat(2))>> }

(* target states and batches whose keys hold the characters "/" and "~",  *)
(* and the orders a range statement visits such keys in                   *)
DiffOrders ==
    { <<"a", "b", "x/y", "x~y", "x~1y", "x~0y">>,
      <<"x~0y", "x~1y", "x~y", "x/y", "b", "a">> }

DiffTargets ==
    { EmptyMap,
      M1("a", GoFloat(1)),
      M2("a", GoFloat(1), "b", GoFloat(2)),
      M2("a", GoFloat(1), "x/y", GoFloat(2)),
      M2("a", GoFloat(1), "x~y", GoFloat(2)),
      M1("x/y", GoFloat(2)),
      M1("b", M1("a", GoFloat(1))) }

DiffBatches ==
    { <<Op("replace", RootPath, M1("x/y", GoFloat(2)))>>,
      <<Op("replace", RootPath, M2("a", GoFloat(1), "x~y", GoFloat(2)))>>,
      <<Op("remove", <<"", "x~1y">>, GoNil)>>,
      <<Op("replace", <<"", "x~0y">>, GoStr("v"))>>,
      <<Op("add", <<"", "x~1y">>, GoFloat(1))>> }

(* root-level adds given to the two replicas, and a later edit *)
SyncBatches(d) ==
    IF d = 1
    THEN { <<Op("add", <<"", "a">>, GoFloat(1))>>,
           <<Op("add", <<"", "l">>, GoList(<<M1("b", GoNil)>>))>>,
           <<Op("remove", <<"", "a">>, GoNil)>> }
    ELSE { <<Op("add", <<"", "b">>, GoStr("x"))>>,
           <<Op("add", <<"", "a">>, GoFloat(2))>> }

(* pointers of the JS batches *)
P1(a) == <<"", a>>
P2(a, b) == <<"", a, b>>
P3(a, b, c) == <<"", a, b, c>>

JsAdd(path, value) == JsOp("add", path, RootPath, value)
JsMove(from, path) == JsOp("move", path, from, GoNil)
JsCopy(from, path) == JsOp("copy", path, from, GoNil)

(* batches given to applyOperations: a document with a map, a list and a  *)
(* string, then moves and copies inside it, legal and illegal             *)
JsBatches ==
    { <<JsAdd(P1("a"), M1("b", GoFloat(1))),
        JsAdd(P1("l"), GoList(<<GoFloat(1), EmptyMap>>)),
        JsAdd(P1("b"), GoStr("x"))>>,
      <<JsMove(P1("a"), P2("a", "b"))>>,
      <<JsMove(P1("l"), P2("l", "0"))>>,
      <<JsMove(P1("a"), P1("a"))>>,
      <<JsMove(P2("l", "0"), P2("l", "0"))>>,
      <<JsMove(P1("a"), P1("b"))>>,
      <<JsMove(P2("a", "b"), P2("l", "0"))>>,
      <<JsMove(P2("l", "0"), P2("l", "1"))>>,
      <<JsMove(P2("l", "0"), P2("l", "2"))>>,
      <<JsMove(P2("l", "0"), P3("l", "1", "b"))>>,
      <<JsMove(P1("b"), P2("l", "3"))>>,
      <<JsCopy(P1("a"), P1("b"))>>,
      <<JsCopy(P1("a"), P2("a", "b"))>>,
      <<JsCopy(P2("l", "1"), P2("l", "0"))>>,
      <<JsCopy(P2("l", "0"), P2("a", "b"))>>,
      <<JsCopy(P1("l"), P2("a", "l"))>>,
      <<JsCopy(P2("a", "b"), P1("a"))>>,
      <<JsOp("remove", P1("a"), RootPath, GoNil)>>,
      <<JsOp("test", P1("a"), RootPath, GoNil),
        JsOp("replace", P2("l", "0"), RootPath, GoStr("x")),
        JsMove(P1("a"), P2("b", "a"))>> }

----------------------------------------------------------------------------
(* The public calls as actions. Every call runs to its return.             *)

Opens(trace) == Len(SelectSeq(trace, LAMBDA e : e \in {"openR", "openW"}))
Commits(trace) == Len(SelectSeq(trace, LAMBDA e : e \in {"commitR", "commitW"}))

(* the engine grants a transaction when no other one is open on the YDoc *)
Granted(d) == txns[d] = 0

Returned(d, trace) ==
    /\ txns' = [txns EXCEPT ![d] = @ + Opens(trace) - Commits(trace)]
    /\ calls' = calls + 1

NoCall == [call |-> "NewDoc", doc |-> 0, err |-> "", ops |-> <<>>, patch |-> <<>>,
           k |-> 0, trace |-> <<>>, arg |-> GoNil, pre |-> NewYDoc, json |-> EmptyMap]

Init ==
    /\ docs = [d \in Clients |-> NewYDoc]
    /\ txns = [d \in Clients |-> 0]
    /\ blobs = {}
    /\ last = NoCall
    /\ calls = 0

UpdateToStateReturns(d, newState, r) ==
    /\ docs' = [docs EXCEPT ![d] = r.s]
    /\ Returned(d, r.trace)
    /\ last' = [call |-> "UpdateToState", doc |-> d, err |-> r.err, ops |-> r.ops,
                patch |-> r.patch, k |-> r.k, trace |-> r.trace, arg |-> newState,
                pre |-> docs[d], json |-> EmptyMap]
    /\ UNCHANGED blobs

CallUpdateToState(d, newState, ord) ==
    UpdateToStateReturns(d, newState, UpdateToState(docs[d], d, newState, ord, Granted(d)))

ApplyOperationsReturns(d, patchList, r) ==
    /\ docs' = [docs EXCEPT ![d] = r.s]
    /\ Returned(d, r.trace)
    /\ last' = [call |-> "ApplyOperations", doc |-> d, err |-> r.err, ops |-> <<>>,
                patch |-> patchList, k |-> r.k, trace |-> r.trace, arg |-> GoNil,
                pre |-> docs[d], json |-> EmptyMap]
    /\ UNCHANGED blobs

CallApplyOperations(d, patchList, ord) ==
    ApplyOperationsReturns(d, patchList,
                           ApplyOperations(docs[d], d, patchList, ord, Granted(d)))

(* the return of a read that empties the root map it has read *)
ToJSONReturnsClearing(d, r) ==
    /\ Returned(d, r.trace)
    /\ last' = [call |-> "ToJSON", doc |-> d, err |-> r.err, ops |-> <<>>,
                patch |-> <<>>, k |-> 0, trace |-> r.trace, arg |-> GoNil,
                pre |-> docs[d], json |-> r.json]
    /\ docs' = [docs EXCEPT ![d] = ymap_remove_all(docs[d], RootId)]
    /\ UNCHANGED blobs

ToJSONReturns(d, r) ==
    /\ Returned(d, r.trace)
    /\ last' = [call |-> "ToJSON", doc |-> d, err |-> r.err, ops |-> <<>>,
                patch |-> <<>>, k |-> 0, trace |-> r.trace, arg |-> GoNil,
                pre |-> docs[d], json |-> r.json]
    /\ UNCHANGED <<docs, blobs>>

CallToJSON(d) == ToJSONReturns(d, ToJSON(docs[d], Granted(d)))

(* the caller keeps the bytes together with the state they were taken in *)
GetStateVectorReturns(d, r, json) ==
    /\ Cardinality(blobs) < MaxBlobs
    /\ Returned(d, r.trace)
    /\ blobs' = IF r.err = ""
                THEN blobs \cup {[data |-> r.data, json |-> json]}
                ELSE blobs
    /\ last' = [call |-> "GetStateVector", doc |-> d, err |-> r.err, ops |-> <<>>,
                patch |-> <<>>, k |-> 0, trace |-> r.trace, arg |-> r.data,
                pre |-> docs[d], json |-> json]
    /\ UNCHANGED docs

CallGetStateVector(d) ==
    GetStateVectorReturns(d, GetStateVector(docs[d], Granted(d)),
                          BranchJSON(docs[d], RootId))

ApplyStateVectorReturns(d, blob, r) ==
    /\ docs' = [docs EXCEPT ![d] = r.s]
    /\ Returned(d, r.trace)
    /\ last' = [call |-> "ApplyStateVector", doc |-> d, err |-> r.err, ops |-> <<>>,
                patch |-> <<>>, k |-> 0, trace |-> r.trace, arg |-> blob.data,
                pre |-> docs[d], json |-> blob.json]
    /\ UNCHANGED blobs

CallApplyStateVector(d, blob) ==
    ApplyStateVectorReturns(d, blob, ApplyStateVector(docs[d], blob.data, Granted(d)))

JsApplyOperationsReturns(d, ops, r) ==
    /\ docs' = [docs EXCEPT ![d] = r.s]
    /\ Returned(d, <<"openW", "commitW">>)
    /\ last' = [call |-> "applyOperations", doc |-> d, err |-> r.err, ops |-> <<>>,
                patch |-> ops, k |-> r.k, trace |-> <<"openW", "commitW">>,
                arg |-> GoNil, pre |-> docs[d], json |-> EmptyMap]
    /\ UNCHANGED blobs

CallJsApplyOperations(d, ops) ==
    JsApplyOperationsReturns(d, ops, jsApplyOperations(docs[d], d, ops))

(* one document, driven by target states and by patches *)
Next ==
    \/ /\ calls < MaxCalls
       /\ \E newState \in Targets \cup {BranchJSON(docs[1], RootId)}, ord \in KeyOrders :
             CallUpdateToState(1, newState, ord)
    \/ /\ calls < MaxCalls
       /\ \E patchList \in Batches, ord \in KeyOrders :
             CallApplyOperations(1, patchList, ord)
    \/ /\ calls < MaxCalls
       /\ CallToJSON(1)

Spec == Init /\ [][Next]_vars

(* two replicas that edit and exchange state vectors *)
NextSync ==
    \/ /\ calls < MaxSyncCalls
       /\ \E d \in Clients : \E patchList \in SyncBatches(d) :
             CallApplyOperations(d, patchList, <<"a", "b", "l">>)
    \/ /\ calls < MaxSyncCalls
       /\ \E d \in Clients : CallToJSON(d)
    \/ /\ calls < MaxSyncCalls
       /\ \E d \in Clients : CallGetStateVector(d)
    \/ /\ calls < MaxSyncCalls
       /\ \E d \in Clients, blob \in blobs \cup {[data |-> Corrupt, json |-> EmptyMap]} :
             CallApplyStateVector(d, blob)

SpecSync == Init /\ [][NextSync]_vars

(* one document brought to a state by one call, then given one more call *)
NextOps ==
    \/ /\ calls < MaxOpCalls
       /\ \E newState \in Targets, ord \in KeyOrders :
             CallUpdateToState(1, newState, ord)
    \/ /\ calls < MaxOpCalls
       /\ \E patchList \in Batches, ord \in KeyOrders :
             CallApplyOperations(1, patchList, ord)

SpecOps == Init /\ [][NextOps]_vars

(* one document driven by target states and by batches, among them        *)
(* batches whose navigation fails below a container it has resolved and   *)
(* whose value stops converting after it has allocated                    *)
MaxResCalls == 2

NextRes ==
    \/ /\ calls < MaxResCalls
       /\ \E newState \in Targets, ord \in KeyOrders :
             CallUpdateToState(1, newState, ord)
    \/ /\ calls < MaxResCalls
       /\ \E ord \in KeyOrders :
             \E patchList \in Batches \cup
                   { <<Op("add", <<"", "l", "0", "a", "b">>, GoStr("x"))>>,
                     <<Op("add", <<"", "l", "0", "a">>,
                          M2("a", GoStr("x"), "b", GoUint(BigUint)))>>,
                     <<Op("add", <<"", "l", "0", "a">>, GoStr("x")),
                       Op("replace", <<"", "l", "0", "a">>, GoList(<<GoStr("y")>>)),
                       Op("remove", <<"", "l", "0", "b">>, GoNil)>> } :
                 CallApplyOperations(1, patchList, ord)

SpecRes == Init /\ [][NextRes]_vars

(* one document whose keys hold "/" and "~" *)
NextDiff ==
    \/ /\ calls < MaxDiffCalls
       /\ \E newState \in DiffTargets, ord \in DiffOrders :
             CallUpdateToState(1, newState, ord)
    \/ /\ calls < MaxDiffCalls
       /\ \E patchList \in DiffBatches, ord \in DiffOrders :
             CallApplyOperations(1, patchList, ord)

SpecDiff == Init /\ [][NextDiff]_vars

(* targets and batches of the run with every call *)
AllTargets ==
    { EmptyMap, M1("a", GoFloat(1)), M1("l", GoList(<<GoFloat(1), GoFloat(2)>>)) }

AllBatches(d) ==
    SyncBatches(d) \cup
        { <<Op("replace", RootPath, GoList(<<GoFloat(1)>>))>>,
          <<Op("replace", RootPath, GoNil)>>,
          <<Op("add", RootPath, M2("a", GoInt(2), "b", GoUint(BigUint)))>> }

(* another user of the YDoc of Doc d, a goroutine in the middle of a call *)
(* of its own, opens a transaction on it, and commits it                  *)
HolderOpens(d) ==
    /\ txns[d] = 0
    /\ txns' = [txns EXCEPT ![d] = 1]
    /\ UNCHANGED <<docs, blobs, last, calls>>

HolderCommits(d) ==
    /\ txns[d] = 1
    /\ txns' = [txns EXCEPT ![d] = 0]
    /\ UNCHANGED <<docs, blobs, last, calls>>

(* two replicas, every public call, and the other user of each YDoc *)
NextAll ==
    \/ /\ calls < MaxAllCalls
       /\ \E d \in Clients, newState \in AllTargets, ord \in KeyOrders :
             CallUpdateToState(d, newState, ord)
    \/ /\ calls < MaxAllCalls
       /\ \E d \in Clients, ord \in KeyOrders : \E patchList \in AllBatches(d) :
             CallApplyOperations(d, patchList, ord)
    \/ /\ calls < MaxAllCalls
       /\ \E d \in Clients : CallToJSON(d)
    \/ /\ calls < MaxAllCalls
       /\ \E d \in Clients : CallGetStateVector(d)
    \/ /\ calls < MaxAllCalls
       /\ \E d \in Clients, blob \in blobs \cup {[data |-> Corrupt, json |-> EmptyMap]} :
             CallApplyStateVector(d, blob)
    \/ \E d \in Clients : HolderOpens(d)
    \/ \E d \in Clients : HolderCommits(d)

SpecAll == Init /\ [][NextAll]_vars

----------------------------------------------------------------------------
(* The AutoSyncDoc of package autoSyncDoc: a YDoc with a root map, one    *)
(* write, AddValue, and the read ToJSON.                                  *)

MaxAddCalls == 3

(* a write that empties the root map before it inserts *)
AddValueReplacingRoot(s, client, key, value, ord, open) ==
    IF ~open
    THEN [err |-> "NoTransaction", s |-> s, trace |-> <<>>]
    ELSE LET in == buildYInputRecursive(value, ord) IN
         Deferred("W",
            IF in.err # "" THEN [err |-> in.err, s |-> s, trace |-> <<>>]
            ELSE [err |-> "",
                  s |-> ymap_insert(ymap_remove_all(s, RootId), client,
                                    RootId, key, in.y),
                  trace |-> <<>>])

(* AddValue: opens a write transaction, converts the value and inserts it *)
(* under the key of the root map; a value that does not convert returns   *)
(* the error before the insertion; the deferred commit runs in both cases *)
AddValue(s, client, key, value, ord, open) ==
    IF ~open
    THEN [err |-> "NoTransaction", s |-> s, trace |-> <<>>]
    ELSE LET in == buildYInputRecursive(value, ord) IN
         Deferred("W",
            IF in.err # "" THEN [err |-> in.err, s |-> s, trace |-> <<>>]
            ELSE [err |-> "",
                  s |-> ymap_insert(s, client, RootId, key, in.y),
                  trace |-> <<>>])

(* arg holds the call's key and value as a map of that one entry *)
AddValueReturns(d, key, value, r) ==
    /\ docs' = [docs EXCEPT ![d] = r.s]
    /\ Returned(d, r.trace)
    /\ last' = [call |-> "AddValue", doc |-> d, err |-> r.err, ops |-> <<>>,
                patch |-> <<>>, k |-> 0, trace |-> r.trace,
                arg |-> M1(key, value), pre |-> docs[d], json |-> EmptyMap]
    /\ UNCHANGED blobs

CallAddValue(d, key, value, ord) ==
    AddValueReturns(d, key, value,
                    AddValue(docs[d], d, key, value, ord, Granted(d)))

AddValues ==
    { GoInt(2), GoStr("x"), GoList(<<GoInt(2), GoNil>>), GoUint(BigUint) }

NextAdd ==
    \/ /\ calls < MaxAddCalls
       /\ \E key \in {"a", "b"}, value \in AddValues, ord \in KeyOrders :
             CallAddValue(1, key, value, ord)
    \/ /\ calls < MaxAddCalls
       /\ CallToJSON(1)
    \/ HolderOpens(1)
    \/ HolderCommits(1)

SpecAdd == Init /\ [][NextAdd]_vars

(* one JS document, driven by batches of operations *)
NextJs ==
    /\ calls < MaxJsCalls
    /\ \E ops \in JsBatches : CallJsApplyOperations(1, ops)

SpecJs == Init /\ [][NextJs]_vars

----------------------------------------------------------------------------
(* deriveOps hands defaultHashFunction to the differ as objectHash, the   *)
(* identity of the elements of a list.  A JS object carries its keys in   *)
(* insertion order, ord.                                                  *)

MaxHashCalls == 2

(* String(value) *)
RECURSIVE jsString(_)
RECURSIVE jsJoin(_, _)
jsJoin(q, n) ==
    IF n > Len(q) THEN ""
    ELSE (IF n > 1 THEN "," ELSE "") \o jsString(q[n]) \o jsJoin(q, n + 1)

jsString(value) ==
    CASE value.t = "str" -> value.v
      [] value.t \in {"int", "uint", "float"} -> ToString(value.v)
      [] value.t = "bool" -> IF value.v THEN "true" ELSE "false"
      [] value.t = "nil" -> "null"
      [] value.t = "list" -> jsJoin(value.v, 1)
      [] OTHER -> "[object Object]"

(* JSON.stringify(value): the keys of an object in their insertion order *)
RECURSIVE JSONstringify(_, _)
RECURSIVE stringifyItems(_, _, _)
RECURSIVE stringifyEntries(_, _, _, _)
stringifyItems(q, n, ord) ==
    IF n > Len(q) THEN ""
    ELSE (IF n > 1 THEN "," ELSE "") \o JSONstringify(q[n], ord)
            \o stringifyItems(q, n + 1, ord)

stringifyEntries(m, ks, n, ord) ==
    IF n > Len(ks) THEN ""
    ELSE (IF n > 1 THEN "," ELSE "") \o "\"" \o ks[n] \o "\":"
            \o JSONstringify(m[ks[n]], ord) \o stringifyEntries(m, ks, n + 1, ord)

JSONstringify(value, ord) ==
    CASE value.t = "str" -> "\"" \o value.v \o "\""
      [] value.t \in {"int", "uint", "float"} -> ToString(value.v)
      [] value.t = "bool" -> IF value.v THEN "true" ELSE "false"
      [] value.t = "nil" -> "null"
      [] value.t = "list" -> "[" \o stringifyItems(value.v, 1, ord) \o "]"
      [] OTHER -> "{" \o stringifyEntries(value.v, RangeKeys(value.v, ord), 1, ord)
                      \o "}"

(* a function that looks for key before id *)
defaultHashFunctionKeyFirst(obj, ord) ==
    IF obj.t = "map" /\ "key" \in DOMAIN obj.v THEN jsString(obj.v["key"])
    ELSE IF obj.t = "map" /\ "id" \in DOMAIN obj.v THEN jsString(obj.v["id"])
    ELSE JSONstringify(obj, ord)

(* defaultHashFunction: obj && typeof obj === 'object' holds for objects  *)
(* and arrays; 'id' in obj and 'key' in obj are false for the arrays of a  *)
(* JSON document                                                          *)
defaultHashFunction(obj, ord) ==
    IF obj.t = "map" /\ "id" \in DOMAIN obj.v THEN jsString(obj.v["id"])
    ELSE IF obj.t = "map" /\ "key" \in DOMAIN obj.v THEN jsString(obj.v["key"])
    ELSE JSONstringify(obj, ord)

HashOrders == { <<"id", "key", "a", "b">>, <<"b", "a", "key", "id">> }

HashElements ==
    { M1("id", GoStr("x")), M1("id", GoStr("y")), M1("key", GoStr("x")),
      M2("id", GoStr("x"), "key", GoStr("y")), M2("id", GoStr("y"), "a", GoFloat(1)),
      M2("key", GoStr("y"), "a", GoFloat(1)),
      M1("id", GoFloat(1)), M1("id", GoStr("1")),
      M1("a", GoStr("x")), M2("a", GoStr("x"), "b", GoFloat(1)), EmptyMap,
      GoStr("x"), GoFloat(1), GoNil, GoList(<<GoFloat(1), GoStr("x")>>) }

(* the differ hashes an element of the old list and one of the new list;  *)
(* arg holds the two elements, ops their two identities                   *)
CallObjectHash(old, new, ord) ==
    /\ last' = [call |-> "deriveOps", doc |-> 0, err |-> "",
                ops |-> <<defaultHashFunction(old, ord),
                          defaultHashFunction(new, ord)>>,
                patch |-> <<>>, k |-> 0, trace |-> <<>>,
                arg |-> GoList(<<old, new>>), pre |-> NewYDoc, json |-> EmptyMap]
    /\ calls' = calls + 1
    /\ UNCHANGED <<docs, txns, blobs>>

NextHash ==
    /\ calls < MaxHashCalls
    /\ \E old \in HashElements, new \in HashElements, ord \in HashOrders :
          CallObjectHash(old, new, ord)

SpecHash == Init /\ [][NextHash]_vars

----------------------------------------------------------------------------
(* Properties. Those of UpdateToState and ApplyOperations on one document  *)
(* are stated for Spec, those of state vectors for SpecSync.               *)

(* the state a call to ToJSON returns for document d *)
StateOf(d) == BranchJSON(docs[d], RootId)

(* the value ToJSON returns for engine state s *)
ValueOf(s) == BranchJSON(s, RootId)

(* a value with every number reduced to its numeric value *)
RECURSIVE Numeric(_)
Numeric(value) ==
    CASE value.t \in {"int", "uint", "float"} -> [t |-> "number", v |-> value.v]
      [] value.t = "list" -> GoList([i \in 1..Len(value.v) |-> Numeric(value.v[i])])
      [] value.t = "map" -> GoMap([k \in DOMAIN value.v |-> Numeric(value.v[k])])
      [] OTHER -> value

(* C1: round trip. When UpdateToState(doc, B) returns without error, the *)
(* state ToJSON reads back equals B, numbers compared by numeric value.  *)
C1_RoundTrip ==
    (last.call = "UpdateToState" /\ last.err = "")
        => Numeric(StateOf(last.doc)) = Numeric(last.arg)

(* the whole document as bytes, and the document after merging bytes *)
Snapshot(s) == GetStateVector(s, TRUE).data
Merged(s, data) == ApplyStateVector(s, data, TRUE)

(* C2: state-vector round trip. For every reachable document d1, applying *)
(* GetStateVector(d1) to a freshly created document succeeds and makes    *)
(* its ToJSON equal to ToJSON(d1).                                         *)
C2_StateVectorRoundTrip ==
    \A d \in Clients :
        /\ GetStateVector(docs[d], TRUE).err = ""
        /\ Merged(NewYDoc, Snapshot(docs[d])).err = ""
        /\ ValueOf(Merged(NewYDoc, Snapshot(docs[d])).s) = StateOf(d)

(* a fresh document was given the bytes of a document that holds a nested *)
(* value, and reads back that document's state                            *)
C2_Witness ==
    /\ last.call = "ApplyStateVector" /\ last.err = ""
    /\ last.pre = NewYDoc
    /\ "l" \in DOMAIN last.json.v
    /\ StateOf(last.doc) = last.json

Included(data, s) == data.valid /\ data.items \subseteq s.items /\ data.dels \subseteq s.dels

C5_Overwrites ==
    (last.call = "ApplyStateVector" /\ last.err = "")
        => StateOf(last.doc) = last.json

(* the document after the first n operations of a batch, each applied in turn *)
RECURSIVE PrefixState(_, _, _, _, _)
PrefixState(s, client, ops, n, ord) ==
    IF n = 0 THEN s
    ELSE applyOp(PrefixState(s, client, ops, n - 1, ord), client, ops[n], ord).s

(* operation n of the batch, applied after the n - 1 before it *)
Step(n, ord) ==
    applyOp(PrefixState(last.pre, last.doc, last.patch, n - 1, ord),
            last.doc, last.patch[n], ord)

(* C6: no rollback, stop at first error. When operation k of a batch      *)
(* given to ApplyOperations fails, the call returns that error, the       *)
(* effects of the operations before k remain in the document, and none of *)
(* the operations after k is applied.                                     *)
C6_StopAtFirstError ==
    (last.call = "ApplyOperations" /\ last.k > 0)
        => \E ord \in KeyOrders :
              /\ \A n \in 1..(last.k - 1) : Step(n, ord).err = ""
              /\ Step(last.k, ord).err # ""
              /\ last.err = Step(last.k, ord).err
              /\ docs[last.doc] = Step(last.k, ord).s

(* the second of three operations failed, the first one's effect is in    *)
(* the document                                                           *)
C6_Witness ==
    /\ last.call = "ApplyOperations" /\ last.err # ""
    /\ last.k = 2 /\ Len(last.patch) = 3
    /\ docs[last.doc] # last.pre

(* every open in the trace of a call is followed at once by its commit *)
Balanced(trace) ==
    /\ Len(trace) % 2 = 0
    /\ \A i \in 1..Len(trace) :
          i % 2 = 1 => \/ trace[i] = "openR" /\ trace[i + 1] = "commitR"
                       \/ trace[i] = "openW" /\ trace[i + 1] = "commitW"

(* C7: every transaction opened by ToJSON, GetStateVector, ApplyOperations *)
(* or ApplyStateVector is committed exactly once before the call returns,  *)
(* on the success path and on every error path: no transaction is open     *)
(* after a public call has returned.                                       *)
C7_TransactionsCommitted ==
    /\ \A d \in Clients : txns[d] = 0
    /\ Balanced(last.trace)
    /\ last.call # "NewDoc" => Len(last.trace) = 2

(* a call that failed after it had opened its transaction has returned *)
C7_Witness ==
    /\ last.call \in {"ApplyOperations", "ApplyStateVector"}
    /\ last.err # ""
    /\ last.trace = <<"openW", "commitW">>
    /\ txns[last.doc] = 0

(* C8 as stated: UpdateToState returns the computed operation list also   *)
(* when applying it failed midway.                                        *)
C8_OpsReturnedRegardless ==
    (last.call = "UpdateToState" /\ last.k > 0) => last.ops = last.patch

(* C8, amended: UpdateToState returns the computed operation list when    *)
(* applying it succeeded, and the empty list, with the error, when the    *)
(* diff or the application failed.                                        *)
C8_OpsOnlyOnSuccess ==
    last.call = "UpdateToState"
        => IF last.err = "" THEN last.ops = last.patch ELSE last.ops = <<>>

(* the second operation of a computed list failed: the first is applied,  *)
(* the list is not returned                                               *)
C8_Witness ==
    /\ last.call = "UpdateToState" /\ last.err # ""
    /\ last.k = 2 /\ Len(last.patch) = 2
    /\ last.ops = <<>>
    /\ docs[last.doc] # last.pre

(* C9: idempotence. The diff of a value against itself is the empty list, *)
(* and UpdateToState(doc, currentStateOf(doc)) applies nothing and leaves *)
(* the document unchanged.                                                *)
C9_Idempotence ==
    /\ \A A \in Targets \cup {StateOf(1)}, ord \in KeyOrders :
          CreateJSONPatch(A, A, ord) = Patch(<<>>)
    /\ (last.call = "UpdateToState" /\ last.arg = ValueOf(last.pre))
          => /\ last.err = ""
             /\ last.patch = <<>> /\ last.ops = <<>>
             /\ docs[last.doc] = last.pre

(* a document that holds a list was updated to its own state *)
C9_Witness ==
    /\ last.call = "UpdateToState" /\ last.err = ""
    /\ last.arg = ValueOf(last.pre)
    /\ "l" \in DOMAIN last.arg.v
    /\ docs[last.doc] = last.pre

(* C10: no-op re-diff. After UpdateToState(doc, B) has succeeded, the     *)
(* diff of the state read back from the document against B is the empty   *)
(* list, for targets with integers, floats and nested containers.         *)
C10_NoOpReDiff ==
    (last.call = "UpdateToState" /\ last.err = "")
        => \A ord \in KeyOrders :
              CreateJSONPatch(last.arg, StateOf(last.doc), ord) = Patch(<<>>)

----------------------------------------------------------------------------
(* Properties of applyOperations of autoSyncDoc.js (SpecJs), and of the    *)
(* single operations of applyOp (Spec)                                     *)

(* RFC 6902 on plain values: the value at a pointer, <<>> when there is none *)
RECURSIVE JAt(_, _)
JAt(value, segs) ==
    IF segs = <<>> THEN <<value>>
    ELSE IF value.t = "map"
    THEN IF Head(segs) \in DOMAIN value.v THEN JAt(value.v[Head(segs)], Tail(segs))
         ELSE <<>>
    ELSE IF value.t = "list"
    THEN IF IsUint(Head(segs)) /\ ParseUint(Head(segs)) < Len(value.v)
         THEN JAt(value.v[ParseUint(Head(segs)) + 1], Tail(segs))
         ELSE <<>>
    ELSE <<>>

JInvalid == [t |-> "invalid", v |-> 0]

(* a list with x inserted before 0-based index i, and with element i taken out *)
ListInsert(q, i, x) == SubSeq(q, 1, i) \o <<x>> \o SubSeq(q, i + 1, Len(q))
ListRemove(q, i) == SubSeq(q, 1, i) \o SubSeq(q, i + 2, Len(q))

(* kind "add", "remove" or "replace" carried out at the last segment *)
JEditMap(m, key, kind, x) ==
    IF kind = "add" \/ (kind = "replace" /\ key \in DOMAIN m)
    THEN GoMap([k \in DOMAIN m \cup {key} |-> IF k = key THEN x ELSE m[k]])
    ELSE IF kind = "remove" /\ key \in DOMAIN m
    THEN GoMap([k \in DOMAIN m \ {key} |-> m[k]])
    ELSE JInvalid

JEditList(q, seg, kind, x) ==
    IF kind = "add" /\ seg = "-" THEN GoList(Append(q, x))
    ELSE IF ~IsUint(seg) THEN JInvalid
    ELSE IF kind = "add" /\ ParseUint(seg) <= Len(q)
    THEN GoList(ListInsert(q, ParseUint(seg), x))
    ELSE IF kind = "remove" /\ ParseUint(seg) < Len(q)
    THEN GoList(ListRemove(q, ParseUint(seg)))
    ELSE IF kind = "replace" /\ ParseUint(seg) < Len(q)
    THEN GoList([q EXCEPT ![ParseUint(seg) + 1] = x])
    ELSE JInvalid

(* the value with the operation carried out at the pointer, JInvalid when *)
(* RFC 6902 calls the operation an error                                  *)
RECURSIVE JEdit(_, _, _, _)
JEdit(value, segs, kind, x) ==
    IF segs = <<>> THEN JInvalid
    ELSE IF value.t = "map"
    THEN IF Len(segs) = 1 THEN JEditMap(value.v, segs[1], kind, x)
         ELSE IF Head(segs) \notin DOMAIN value.v THEN JInvalid
         ELSE IF JEdit(value.v[Head(segs)], Tail(segs), kind, x).t = "invalid"
         THEN JInvalid
         ELSE GoMap([value.v EXCEPT
                        ![Head(segs)] = JEdit(value.v[Head(segs)], Tail(segs), kind, x)])
    ELSE IF value.t = "list"
    THEN IF Len(segs) = 1 THEN JEditList(value.v, segs[1], kind, x)
         ELSE IF ~IsUint(Head(segs)) THEN JInvalid
         ELSE IF ParseUint(Head(segs)) >= Len(value.v) THEN JInvalid
         ELSE IF JEdit(value.v[ParseUint(Head(segs)) + 1], Tail(segs), kind, x).t
                    = "invalid"
         THEN JInvalid
         ELSE GoList([value.v EXCEPT ![ParseUint(Head(segs)) + 1] =
                        JEdit(value.v[ParseUint(Head(segs)) + 1], Tail(segs), kind, x)])
    ELSE JInvalid

(* a call of applyOperations with one operation, of kind type *)
JsSingle(type) ==
    /\ last.call = "applyOperations"
    /\ Len(last.patch) = 1
    /\ last.patch[1].op = type

(* the pointers of that operation, split *)
JsPath == jsSegments(last.patch[1].path)
JsFrom == jsSegments(last.patch[1].from)

(* the parent of the destination resolves in the document before the call *)
JsParentResolves == jsNavigate(last.pre, RootId, jsParentSegments(JsPath)).err = ""

JsApart ==
    /\ last.patch[1].path # last.patch[1].from
    /\ ~startsWith(last.patch[1].path, last.patch[1].from)

(* RFC 6902 move on plain values: remove at from, then add at path *)
JMove(value, from, path) ==
    IF JAt(value, from) = <<>> THEN JInvalid
    ELSE IF JEdit(value, from, "remove", GoNil).t = "invalid" THEN JInvalid
    ELSE JEdit(JEdit(value, from, "remove", GoNil), path, "add", JAt(value, from)[1])

(* C13: a legal move is supported by the patch applier. After a move that *)
(* succeeded, the value that was at from is no longer there, a            *)
(* structurally equal value is at path, placed as add places it, and      *)
(* every other part of the document is unchanged.                         *)
C13_LegalMove ==
    (JsSingle("move") /\ JsApart /\ last.err = "")
        => /\ JAt(StateOf(last.doc), JsPath) = JAt(ValueOf(last.pre), JsFrom)
           /\ StateOf(last.doc) = JMove(ValueOf(last.pre), JsFrom, JsPath)

(* one pointer is the other or lies inside it *)
Within(inner, outer) ==
    Len(inner) >= Len(outer) /\ SubSeq(inner, 1, Len(outer)) = outer

(* the pointer that addresses, after an insertion at path, what the       *)
(* pointer from addressed before it: an insertion into a list moves the   *)
(* elements at and after its index one place to the right                 *)
Shifted(value, from, path) ==
    IF /\ path # <<>>
       /\ Len(from) >= Len(path)
       /\ SubSeq(from, 1, Len(path) - 1) = jsParentSegments(path)
       /\ JAt(value, jsParentSegments(path)) # <<>>
       /\ JAt(value, jsParentSegments(path))[1].t = "list"
       /\ IsUint(from[Len(path)]) /\ IsUint(jsLastSegment(path))
       /\ ParseUint(from[Len(path)]) >= ParseUint(jsLastSegment(path))
    THEN [from EXCEPT ![Len(path)] = Itoa(ParseUint(from[Len(path)]) + 1)]
    ELSE from

(* where the source of the last copy is after it *)
JsFromAfter == Shifted(ValueOf(last.pre), JsFrom, JsPath)

(* later mutations below a pointer *)
Below(ptr) ==
    { JsAdd(<<"">> \o ptr \o <<"b">>, GoFloat(2)),
      JsAdd(<<"">> \o ptr \o <<"0">>, GoFloat(2)),
      JsOp("remove", <<"">> \o ptr \o <<"b">>, RootPath, GoNil),
      JsOp("remove", <<"">> \o ptr \o <<"0">>, RootPath, GoNil),
      JsOp("replace", <<"">> \o ptr \o <<"0">>, RootPath, GoStr("y")) }

(* a mutation below ptr that succeeds leaves the value at other as it is *)
Independent(s, ptr, other) ==
    \A f \in Below(ptr) :
        jsApplyOp(s, 1, f).err = ""
            => JAt(ValueOf(jsApplyOp(s, 1, f).s), other) = JAt(ValueOf(s), other)

(* what a successful copy leaves behind *)
CopyKeepsSource ==
    /\ JAt(StateOf(last.doc), JsFromAfter) = JAt(ValueOf(last.pre), JsFrom)
    /\ JAt(StateOf(last.doc), JsPath) = JAt(ValueOf(last.pre), JsFrom)
    /\ Independent(docs[last.doc], JsPath, JsFromAfter)
    /\ Independent(docs[last.doc], JsFromAfter, JsPath)

(* C14, as stated: copy leaves the source untouched and gives the         *)
(* destination an independent tree. After a successful copy the source    *)
(* value is unchanged, the destination holds a structurally equal value,  *)
(* and a later mutation under the destination never changes the source,   *)
(* nor one under the source the destination.                              *)
C14_CopyLeavesSource ==
    (JsSingle("copy") /\ last.err = "") => CopyKeepsSource

(* C14, amended: the same, for a copy whose destination is neither inside *)
(* its source nor contains it. A copy into the source itself adds the     *)
(* copy to the source, and a copy onto a container that holds the source  *)
(* replaces the source together with it.                                  *)
C14_CopyApartLeavesSource ==
    (JsSingle("copy") /\ last.err = ""
        /\ ~Within(JsPath, JsFrom) /\ ~Within(JsFrom, JsPath))
        => CopyKeepsSource

(* a map was copied to a place apart from it, and a key can then be added *)
(* below the copy                                                         *)
C14_Witness ==
    /\ JsSingle("copy") /\ last.err = ""
    /\ ~Within(JsPath, JsFrom) /\ ~Within(JsFrom, JsPath)
    /\ JAt(ValueOf(last.pre), JsFrom) # <<>>
    /\ JAt(ValueOf(last.pre), JsFrom)[1].t = "map"
    /\ jsApplyOp(docs[last.doc], 1,
                 JsAdd(<<"">> \o JsPath \o <<"b">>, GoFloat(2))).err = ""

----------------------------------------------------------------------------
(* Single operations of applyOp, applied to every document that SpecOps     *)
(* reaches                                                                 *)

(* the pointers and values that the operations are tried with *)
GoPaths ==
    { <<"", "a">>, <<"", "b">>, <<"", "l">>, <<"", "a", "b">>,
      <<"", "l", "0">>, <<"", "l", "1">>, <<"", "l", "2">>, <<"", "l", "3">>,
      <<"", "l", "-">>, <<"", "l", "0", "a">> }

GoValues ==
    { GoFloat(1), GoInt(2), GoStr("x"), GoNil, EmptyMap,
      GoList(<<GoFloat(1)>>), GoUint(BigUint) }

(* buildYInputRecursive accepts the value *)
Converts(value) == \A ord \in KeyOrders : BuildErr(value, ord) = ""

(* the parent container that the pointer of the operation addresses *)
ParentOf(s, op) == navigateToParent(s, Tail(op.path))
OnMap(s, op) ==
    ParentOf(s, op).err = "" /\ ytype_kind(s, ParentOf(s, op).parent) = "map"
OnList(s, op) ==
    ParentOf(s, op).err = "" /\ ytype_kind(s, ParentOf(s, op).parent) = "list"

(* the state read back, every number taken by its value alone *)
Read(s) == Numeric(ValueOf(s))

(* the list that is the parent, as read back, and the index addressed *)
ListAt(s, op) == JAt(Read(s), jsParentSegments(Tail(op.path)))[1].v
IndexOf(s, op) ==
    IF ParentOf(s, op).last = "-" THEN Len(ListAt(s, op))
    ELSE ParseUint(ParentOf(s, op).last)

(* the state read back after the operation, by RFC 6902 *)
Expected(s, op) == JEdit(Read(s), Tail(op.path), op.op, Numeric(op.value))

(* the last call applied this one operation *)
GoSingle(op) == last.call = "ApplyOperations" /\ last.patch = <<op>>

(* an add on a map parent gave r *)
AddOnMap(s, op, r) ==
    /\ r.err = "" <=> Converts(op.value)
    /\ r.err = "" => Read(r.s) = Expected(s, op)
    /\ r.err # "" => r.s = s

(* C15: add on a Map parent never fails because the key already exists:   *)
(* it inserts the key when absent and overwrites it when present, and     *)
(* leaves every other key of that map unchanged. The only failure is a    *)
(* value that does not convert, whether the key exists or not.            *)
C15_AddOnMap ==
    \A p \in GoPaths, v \in GoValues, ord \in KeyOrders :
        OnMap(docs[1], Op("add", p, v))
            => AddOnMap(docs[1], Op("add", p, v),
                        applyOp(docs[1], 1, Op("add", p, v), ord))

(* add /l, the first operation of a batch, overwrote a different value of *)
(* l next to the root key a, which has kept its value                    *)
C15_Witness ==
    /\ last.call = "ApplyOperations" /\ last.err = ""
    /\ Len(last.patch) = 3
    /\ last.patch[1] = Op("add", <<"", "l">>, GoList(<<GoFloat(1)>>))
    /\ {"a", "l"} \subseteq DOMAIN Read(last.pre).v
    /\ Read(last.pre).v["l"] # Numeric(GoList(<<GoFloat(1)>>))
    /\ \E ord \in KeyOrders :
          Read(Step(1, ord).s) = Expected(last.pre, last.patch[1])
    /\ Read(docs[1]).v["a"] = Read(last.pre).v["a"]

(* an add on a list parent gave r *)
AddOnList(s, op, r) ==
    /\ IndexOf(s, op) <= Len(ListAt(s, op))
          => /\ r.err = ""
             /\ Read(r.s) = Expected(s, op)
             /\ JAt(Read(r.s), jsParentSegments(Tail(op.path)))[1].v
                   = ListInsert(ListAt(s, op), IndexOf(s, op), Numeric(op.value))
    /\ IndexOf(s, op) > Len(ListAt(s, op))
          => r.err = "IndexOutOfRange" /\ r.s = s

(* C16: add on a List parent of length n accepts exactly the indices 0..n *)
(* and the marker "-" (meaning n): the value (one that converts) is       *)
(* inserted at that index, the elements at and after it shift right by    *)
(* one and the length becomes n+1; an index greater than n fails with an  *)
(* out-of-range error and leaves the list unchanged.                      *)
C16_AddOnList ==
    \A p \in GoPaths, v \in GoValues, ord \in KeyOrders :
        (OnList(docs[1], Op("add", p, v)) /\ Converts(v))
            => AddOnList(docs[1], Op("add", p, v),
                         applyOp(docs[1], 1, Op("add", p, v), ord))

(* a value was inserted before the only element of a list *)
C16_Witness ==
    /\ GoSingle(Op("add", <<"", "l", "0">>, GoStr("x"))) /\ last.err = ""
    /\ Len(ListAt(last.pre, last.patch[1])) >= 1
    /\ Read(docs[1]).v["l"].v
          = <<GoStr("x")>> \o ListAt(last.pre, last.patch[1])

(* a remove gave r *)
RemoveAt(s, op, r) ==
    /\ (OnMap(s, op) /\ JAt(Read(s), Tail(op.path)) # <<>>)
          => r.err = "" /\ Read(r.s) = Expected(s, op)
    /\ (OnMap(s, op) /\ JAt(Read(s), Tail(op.path)) = <<>>)
          => r.err = "NotFound" /\ r.s = s
    /\ (OnList(s, op) /\ ParentOf(s, op).last = "-")
          => r.err # "" /\ r.s = s
    /\ (OnList(s, op) /\ ParentOf(s, op).last # "-"
            /\ IndexOf(s, op) < Len(ListAt(s, op)))
          => /\ r.err = ""
             /\ Read(r.s) = Expected(s, op)
             /\ JAt(Read(r.s), jsParentSegments(Tail(op.path)))[1].v
                   = ListRemove(ListAt(s, op), IndexOf(s, op))
    /\ (OnList(s, op) /\ ParentOf(s, op).last # "-"
            /\ IndexOf(s, op) >= Len(ListAt(s, op)))
          => r.err = "IndexOutOfRange" /\ r.s = s

(* C17: remove deletes exactly the addressed entry. On a Map parent it    *)
(* deletes the key and fails with not-found when the key is absent; on a  *)
(* List parent it deletes one element at the index and fails with         *)
(* out-of-range when index >= length; in both failure cases the document  *)
(* is unchanged.                                                          *)
C17_Remove ==
    \A p \in GoPaths, ord \in KeyOrders :
        RemoveAt(docs[1], Op("remove", p, GoNil),
                 applyOp(docs[1], 1, Op("remove", p, GoNil), ord))

(* remove /a failed with not-found on a document that holds other keys,   *)
(* and the document is as it was                                          *)
C17_Witness ==
    /\ last.call = "ApplyOperations" /\ last.k = 1
    /\ last.patch[1] = Op("remove", <<"", "a">>, GoNil)
    /\ last.err = "NotFound"
    /\ DOMAIN Read(last.pre).v # {}
    /\ docs[1] = last.pre

(* a replace gave r *)
ReplaceAt(s, op, r) ==
    /\ (OnMap(s, op) /\ JAt(Read(s), Tail(op.path)) = <<>>)
          => /\ r.err = "NotFound" /\ r.s = s
             /\ JAt(Read(r.s), Tail(op.path)) = <<>>
    /\ (OnMap(s, op) /\ JAt(Read(s), Tail(op.path)) # <<>>)
          => r.err = "" /\ Read(r.s) = Expected(s, op)
    /\ (OnList(s, op) /\ ParentOf(s, op).last = "-")
          => r.err # "" /\ r.s = s
    /\ (OnList(s, op) /\ ParentOf(s, op).last # "-"
            /\ IndexOf(s, op) >= Len(ListAt(s, op)))
          => r.err = "IndexOutOfRange" /\ r.s = s
    /\ (OnList(s, op) /\ ParentOf(s, op).last # "-"
            /\ IndexOf(s, op) < Len(ListAt(s, op)))
          => /\ r.err = ""
             /\ Read(r.s) = Expected(s, op)
             /\ JAt(Read(r.s), jsParentSegments(Tail(op.path)))[1].v
                   = [ListAt(s, op) EXCEPT ![IndexOf(s, op) + 1] = Numeric(op.value)]

(* C18: replace requires the target to exist. On a Map parent a missing   *)
(* key fails with not-found and the key is not created; on a List parent  *)
(* index >= length fails with out-of-range; on success of a List replace  *)
(* the list keeps its length and only the element at that index changes.  *)
(* The value is one that converts.                                        *)
C18_Replace ==
    \A p \in GoPaths, v \in GoValues, ord \in KeyOrders :
        Converts(v)
            => ReplaceAt(docs[1], Op("replace", p, v),
                         applyOp(docs[1], 1, Op("replace", p, v), ord))

(* the first of two elements of a list was replaced, the second one stayed *)
C18_Witness ==
    /\ GoSingle(Op("replace", <<"", "l", "0">>, GoStr("x"))) /\ last.err = ""
    /\ Len(ListAt(last.pre, last.patch[1])) = 2
    /\ ListAt(last.pre, last.patch[1])[1] # GoStr("x")
    /\ Read(docs[1]).v["l"].v
          = <<GoStr("x"), ListAt(last.pre, last.patch[1])[2]>>

(* the map values that root operations are tried with *)
RootValues ==
    { EmptyMap,
      M1("b", GoFloat(2)),
      M2("a", GoInt(2), "b", GoUint(BigUint)),
      M2("a", GoStr("x"), "l", GoList(<<GoFloat(1)>>)),
      M1("a", M1("b", GoNil)) }

(* the entries of m overridden by those of over *)
Overridden(m, over) ==
    GoMap([k \in DOMAIN m.v \cup DOMAIN over.v |->
              IF k \in DOMAIN over.v THEN over.v[k] ELSE m.v[k]])

(* C19: root operations (empty path) with a Map value. After a successful *)
(* root replace the root holds exactly the entries of the value (every    *)
(* previous root key is gone); after a successful root add the root holds *)
(* the previous entries overridden by the value's entries, and root keys  *)
(* not named in the value are unchanged. Both succeed when every entry of *)
(* the value converts.                                                    *)
C19_RootOperations ==
    \A v \in RootValues, ord \in KeyOrders :
        /\ applyOp(docs[1], 1, Op("replace", RootPath, v), ord).err = ""
              <=> Converts(v)
        /\ applyOp(docs[1], 1, Op("add", RootPath, v), ord).err = ""
              <=> Converts(v)
        /\ Converts(v)
              => /\ Read(applyOp(docs[1], 1, Op("replace", RootPath, v), ord).s)
                       = Numeric(v)
                 /\ Read(applyOp(docs[1], 1, Op("add", RootPath, v), ord).s)
                       = Overridden(Read(docs[1]), Numeric(v))

(* a root replace succeeded on a document that held the key a, which is   *)
(* gone: the remove of a that followed did not find it                    *)
C19_Witness ==
    /\ last.call = "ApplyOperations" /\ last.k = 2
    /\ last.patch[1] = Op("replace", RootPath, M1("b", GoFloat(2)))
    /\ "a" \in DOMAIN Read(last.pre).v
    /\ Read(docs[1]) = Numeric(M1("b", GoFloat(2)))

(* C20, as stated: for both root add and root replace a Null value is     *)
(* treated as the empty Map: root replace with Null succeeds and empties  *)
(* the root, and root add with Null succeeds and leaves the root          *)
(* unchanged.                                                             *)
C20_NullIsEmptyMap ==
    \A ord \in KeyOrders :
        /\ applyOp(docs[1], 1, Op("replace", RootPath, GoNil), ord).err = ""
        /\ Read(applyOp(docs[1], 1, Op("replace", RootPath, GoNil), ord).s) = EmptyMap
        /\ applyOp(docs[1], 1, Op("add", RootPath, GoNil), ord).err = ""
        /\ Read(applyOp(docs[1], 1, Op("add", RootPath, GoNil), ord).s) = Read(docs[1])

(* C20, amended: only root replace treats a Null value as the empty Map.  *)
(* Root replace with Null succeeds and empties the root; root add with    *)
(* Null fails with the error that the value must be a map, and leaves the *)
(* document unchanged.                                                    *)
C20_NullOnlyForReplace ==
    \A ord \in KeyOrders :
        /\ applyOp(docs[1], 1, Op("replace", RootPath, GoNil), ord).err = ""
        /\ Read(applyOp(docs[1], 1, Op("replace", RootPath, GoNil), ord).s) = EmptyMap
        /\ applyOp(docs[1], 1, Op("add", RootPath, GoNil), ord).err = "TypeMismatch"
        /\ applyOp(docs[1], 1, Op("add", RootPath, GoNil), ord).s = docs[1]

(* a root replace with nil emptied a document that held keys, and the     *)
(* root add with nil that followed was refused                            *)
C20_Witness ==
    /\ last.call = "ApplyOperations" /\ last.k = 2
    /\ last.patch = <<Op("replace", RootPath, GoNil), Op("add", RootPath, GoNil)>>
    /\ last.err = "TypeMismatch"
    /\ DOMAIN Read(last.pre).v # {}
    /\ Read(docs[1]) = EmptyMap

(* the values that are neither a map nor nil *)
NotMaps == { GoFloat(1), GoStr("x"), GoBool(TRUE), GoList(<<GoFloat(1)>>),
             GoList(<<M1("a", GoFloat(1))>>) }

(* C21: an operation with an empty path whose type is anything other than *)
(* add or replace (remove, move, copy, test) fails with an                *)
(* unsupported-operation error and leaves the document unchanged;         *)
(* likewise a root add or replace whose value is neither a Map nor an     *)
(* accepted Null fails without clearing or changing the root.             *)
C21_RootRejections ==
    \A ord \in KeyOrders :
        /\ \A type \in {"remove", "move", "copy", "test"},
              v \in GoValues \cup RootValues :
              /\ applyOp(docs[1], 1, Op(type, RootPath, v), ord).err
                    = "UnsupportedOperation"
              /\ applyOp(docs[1], 1, Op(type, RootPath, v), ord).s = docs[1]
        /\ \A type \in {"add", "replace"}, v \in NotMaps :
              /\ applyOp(docs[1], 1, Op(type, RootPath, v), ord).err = "TypeMismatch"
              /\ applyOp(docs[1], 1, Op(type, RootPath, v), ord).s = docs[1]
        /\ applyOp(docs[1], 1, Op("add", RootPath, GoNil), ord).s = docs[1]

(* a root replace with a list was refused on a document that holds keys,  *)
(* and the keys are still there                                           *)
C21_Witness ==
    /\ GoSingle(Op("replace", RootPath, GoList(<<GoFloat(1)>>)))
    /\ last.err = "TypeMismatch"
    /\ DOMAIN Read(last.pre).v # {}
    /\ docs[1] = last.pre

(* pointers with segments before the last one *)
NavPaths ==
    { <<"", "a", "b">>, <<"", "b", "a">>, <<"", "a", "b", "a">>,
      <<"", "l", "0", "a">>, <<"", "l", "1", "a">>, <<"", "l", "3", "a">>,
      <<"", "l", "x", "a">>, <<"", "l", "-", "a">>, <<"", "l", "0", "a", "b">> }

(* the navigation error that the state read back calls for: "" when every *)
(* segment before the last one resolves to a map or a list                *)
RECURSIVE NavExpected(_, _)
NavChild(child, segs) ==
    IF child.t \in {"map", "list"} THEN NavExpected(child, segs) ELSE "TypeMismatch"
NavExpected(value, segs) ==
    IF Len(segs) <= 1 THEN ""
    ELSE IF value.t = "map"
    THEN IF Head(segs) \notin DOMAIN value.v THEN "NotFound"
         ELSE NavChild(value.v[Head(segs)], Tail(segs))
    ELSE IF ~IsUint(Head(segs)) THEN "InvalidPath"
    ELSE IF ParseUint(Head(segs)) >= Len(value.v) THEN "IndexOutOfRange"
    ELSE NavChild(value.v[ParseUint(Head(segs)) + 1], Tail(segs))

(* C22: navigation failures on the non-final segments are errors with no  *)
(* mutation: a missing map key fails (not found), an unparsable list      *)
(* index fails (invalid path), a list index >= length fails (out of       *)
(* range), and a segment that resolves to a primitive instead of a Map or *)
(* List fails (type mismatch).                                            *)
C22_NavigationFailures ==
    \A p \in NavPaths, type \in {"add", "remove", "replace"}, ord \in KeyOrders :
        NavExpected(Read(docs[1]), Tail(p)) # ""
            => /\ applyOp(docs[1], 1, Op(type, p, GoFloat(1)), ord).err
                     = NavExpected(Read(docs[1]), Tail(p))
               /\ applyOp(docs[1], 1, Op(type, p, GoFloat(1)), ord).s = docs[1]

(* an add below /l/0 was refused because the element there is a number,   *)
(* and the document is as it was                                          *)
C22_Witness ==
    /\ GoSingle(Op("add", <<"", "l", "0", "a">>, GoFloat(1)))
    /\ last.err = "TypeMismatch"
    /\ JAt(Read(last.pre), <<"l", "0">>) # <<>>
    /\ docs[1] = last.pre

(* C23, as stated: all engine handles obtained while walking a path are   *)
(* released before navigate returns, on every exit path of navigate: the  *)
(* successful return as well as every error return.                       *)
C23_ReleasedBeforeReturn ==
    \A p \in NavPaths \cup GoPaths :
        navigateToParent(docs[1], Tail(p)).outs = 0

(* C23, amended: on every error return the handles obtained while walking *)
(* are released before navigate returns. On the successful return the     *)
(* handles, one for each segment before the last, are handed to the       *)
(* caller, which releases all of them when the operation returns, whether *)
(* it succeeded or failed.                                                *)
C23_ReleasedByCaller ==
    \A p \in NavPaths \cup GoPaths :
        /\ navigateToParent(docs[1], Tail(p)).err # ""
              => navigateToParent(docs[1], Tail(p)).outs = 0
        /\ navigateToParent(docs[1], Tail(p)).err = ""
              => navigateToParent(docs[1], Tail(p)).outs = Len(Tail(p)) - 1
        /\ \A type \in {"add", "remove", "replace", "move"} :
              applyOpOutputs(docs[1], Op(type, p, GoFloat(1))) = 0

(* an add below /l/0 succeeded: the navigation went through the list and  *)
(* its first element and returned both handles to applyOp                 *)
C23_Witness ==
    /\ GoSingle(Op("add", <<"", "l", "0", "a">>, GoFloat(1)))
    /\ last.err = ""
    /\ navigateToParent(last.pre, <<"l", "0", "a">>).outs = 2
    /\ applyOpOutputs(last.pre, last.patch[1]) = 0

----------------------------------------------------------------------------
(* Unsigned integers                                                       *)

(* every value of the unsigned type, and the ones tried inside operations *)
Uints == 0..(2 ^ IntBits - 1)
EdgeUints == {0, MaxInt64, BigUint, 2 ^ IntBits - 1}

(* the uint by itself, and nested in a list and in a map *)
Carrying(u) == {GoUint(u), GoList(<<GoFloat(1), GoUint(u)>>), M1("b", GoUint(u))}

(* C26: an unsigned integer is accepted and stored as that integer exactly *)
(* when it fits the signed 64-bit range; one that exceeds the range makes *)
(* the conversion fail with an overflow error, so that an add or replace  *)
(* carrying such a value, nested or not, fails and leaves the document as *)
(* it was.                                                                 *)
C26_UintOverflow ==
    /\ \A u \in Uints, ord \in KeyOrders :
          /\ buildYInputRecursive(GoUint(u), ord).err = "Overflow"
                <=> u >= 2 ^ (IntBits - 1)
          /\ u < 2 ^ (IntBits - 1)
                => buildYInputRecursive(GoUint(u), ord)
                       = [err |-> "", y |-> [t |-> "long", v |-> u]]
    /\ \A u \in EdgeUints, type \in {"add", "replace"}, ord \in KeyOrders :
          \A p \in {<<"", "a">>, <<"", "l", "0">>}, value \in Carrying(u) :
              /\ (u >= 2 ^ (IntBits - 1) /\ ParentOf(docs[1], Op(type, p, value)).err = "")
                    => applyOp(docs[1], 1, Op(type, p, value), ord)
                           = OpErr("Overflow", docs[1])
              /\ (u < 2 ^ (IntBits - 1) /\ type = "add"
                     /\ ParentOf(docs[1], Op(type, p, value)).err = "")
                    => /\ applyOp(docs[1], 1, Op(type, p, value), ord).err = ""
                       /\ Read(applyOp(docs[1], 1, Op(type, p, value), ord).s)
                              = Expected(docs[1], Op(type, p, value))

(* the second operation of a batch carried the smallest uint above the    *)
(* int64 range: the batch stopped there with the overflow error and b was *)
(* not written                                                            *)
C26_Witness ==
    /\ last.call = "ApplyOperations" /\ last.err = "Overflow" /\ last.k = 2
    /\ last.patch[2] = Op("add", <<"", "b">>, GoUint(BigUint))
    /\ "a" \in DOMAIN Read(docs[last.doc]).v
    /\ ("b" \in DOMAIN Read(docs[last.doc]).v) = ("b" \in DOMAIN Read(last.pre).v)

----------------------------------------------------------------------------
(* The append marker                                                       *)

(* pointers with the marker as the last segment and before the last one   *)
MarkerLast == {<<"", "l", "-">>}
MarkerInside == {<<"", "l", "-", "a">>, <<"", "l", "-", "0">>, <<"", "l", "-", "-">>}

(* the root key l holds a list *)
HoldsList(s) == "l" \in DOMAIN Read(s).v /\ Read(s).v["l"].t = "list"

(* C25: on a list the marker "-" is accepted only as the last segment of  *)
(* an add, which appends. As a segment before the last one, and as the    *)
(* last segment of a remove or a replace, it makes the operation fail and *)
(* the document stays as it was.                                          *)
C25_AppendMarker ==
    HoldsList(docs[1]) =>
        \A v \in {GoFloat(1), EmptyMap}, ord \in KeyOrders :
            /\ \A p \in MarkerInside, type \in {"add", "remove", "replace"} :
                  applyOp(docs[1], 1, Op(type, p, v), ord)
                      = OpErr("InvalidPath", docs[1])
            /\ \A p \in MarkerLast, type \in {"remove", "replace"} :
                  applyOp(docs[1], 1, Op(type, p, v), ord)
                      = OpErr("InvalidPath", docs[1])
            /\ \A p \in MarkerLast :
                  /\ applyOp(docs[1], 1, Op("add", p, v), ord).err = ""
                  /\ Read(applyOp(docs[1], 1, Op("add", p, v), ord).s).v["l"]
                         = GoList(Append(Read(docs[1]).v["l"].v, Numeric(v)))

(* remove /l/- was given to a document whose l is a list with an element: *)
(* the call failed and the list is as it was                              *)
C25_Witness ==
    /\ GoSingle(Op("remove", <<"", "l", "-">>, GoNil))
    /\ HoldsList(last.pre) /\ Len(Read(last.pre).v["l"].v) > 0
    /\ last.err = "InvalidPath"
    /\ Read(docs[last.doc]) = Read(last.pre)

----------------------------------------------------------------------------
(* A batch and its operations one by one                                   *)

(* the document after ApplyOperations was called once for each operation  *)
(* of ops from the n-th on, each call with a batch of that one operation; *)
(* stopping tells whether the caller gives up at the first call that      *)
(* returns an error                                                       *)
RECURSIVE OneByOne(_, _, _, _, _, _)
OneByOneNext(r, client, ops, n, ord, stopping) ==
    IF r.err # "" /\ stopping THEN r.s
    ELSE OneByOne(r.s, client, ops, n + 1, ord, stopping)
OneByOne(s, client, ops, n, ord, stopping) ==
    IF n > Len(ops) THEN s
    ELSE OneByOneNext(ApplyOperations(s, client, <<ops[n]>>, ord, TRUE),
                      client, ops, n, ord, stopping)

(* the last call was ApplyOperations and it got its transaction *)
BatchApplied == last.call = "ApplyOperations" /\ last.trace # <<>>

(* C27, as stated: the document after ApplyOperations([o1,...,on]) equals *)
(* the document obtained by applying o1, then o2, ..., then on as n       *)
(* separate single-operation batches.                                     *)
C27_AsSeparateBatches ==
    BatchApplied =>
        \E ord \in KeyOrders :
            docs[last.doc] = OneByOne(last.pre, last.doc, last.patch, 1, ord, FALSE)

(* C27, amended: operations are applied strictly left to right and each   *)
(* one sees the effects of all earlier ones: the document after           *)
(* ApplyOperations([o1,...,on]) equals the document obtained by applying  *)
(* o1, then o2, ... as separate single-operation batches up to and        *)
(* including the first one that fails, or all n when none fails. The      *)
(* operations after a failed one are not applied by the batch, even those *)
(* that would succeed on their own.                                       *)
C27_LeftToRight ==
    BatchApplied =>
        /\ \E ord \in KeyOrders :
              docs[last.doc] = OneByOne(last.pre, last.doc, last.patch, 1, ord, TRUE)
        /\ last.err = ""
              => \E ord \in KeyOrders :
                    docs[last.doc]
                        = OneByOne(last.pre, last.doc, last.patch, 1, ord, FALSE)

(* a batch of three succeeded in which the second operation appended to   *)
(* the list the first one had created and the third removed the element   *)
(* the first one had put there                                            *)
C27_Witness ==
    /\ BatchApplied /\ last.err = "" /\ Len(last.patch) = 3
    /\ last.patch[2] = Op("add", <<"", "l", "-">>, GoBool(TRUE))
    /\ ~HoldsList(last.pre)
    /\ Read(docs[last.doc]).v["l"] = GoList(<<GoBool(TRUE)>>)

----------------------------------------------------------------------------
(* Transactions open at one time                                           *)

(* the transactions open after the first n events of a trace *)
OpenAfter(trace, n) == Opens(SubSeq(trace, 1, n)) - Commits(SubSeq(trace, 1, n))

(* C28: scope exclusivity. In any sequence of public calls on one         *)
(* document at most one transaction is open at any moment: none between   *)
(* two calls, and at most one at every point inside a call. UpdateToState *)
(* commits the read transaction it read the current state in before it    *)
(* opens the write transaction it applies the patch in.                   *)
C28_ScopeExclusivity ==
    /\ txns[1] = 0
    /\ \A n \in 0..Len(last.trace) : OpenAfter(last.trace, n) \in {0, 1}
    /\ (last.call = "UpdateToState" /\ last.patch # <<>>)
          => last.trace = <<"openR", "commitR", "openW", "commitW">>

(* UpdateToState computed a patch that is not empty and applied it, after *)
(* an earlier call on the same document                                   *)
C28_Witness ==
    /\ last.call = "UpdateToState" /\ last.err = ""
    /\ calls > 1 /\ Len(last.patch) > 0
    /\ last.trace = <<"openR", "commitR", "openW", "commitW">>
    /\ OpenAfter(last.trace, 1) = 1 /\ OpenAfter(last.trace, 2) = 0
    /\ OpenAfter(last.trace, 3) = 1 /\ txns[1] = 0

----------------------------------------------------------------------------
(* Keys that a JSON Pointer escapes                                        *)

(* RFC 6901: first "~1" to "/", then "~0" to "~" *)
DecodeSegment(seg) ==
    CASE seg = "x~1y" -> "x/y"
      [] seg = "x~0y" -> "x~y"
      [] seg = "x~01y" -> "x~1y"
      [] seg = "x~00y" -> "x~0y"
      [] OTHER -> seg

DecodePath(path) == [n \in 1..Len(path) |-> DecodeSegment(path[n])]

(* keys with one of the two characters, and the pointers to them *)
EscapedKeys == {"x/y", "x~y"}
EscapedPaths == {<<"", "x~1y">>, <<"", "x~0y">>}

(* the operation as RFC 6902 reads it, its pointer decoded *)
Decoded(op) == [op EXCEPT !.path = DecodePath(op.path)]

(* C24: paths are RFC 6901 JSON Pointers. A segment is decoded before the *)
(* key lookup, "~1" to "/" and "~0" to "~", so that an operation          *)
(* addressing a map key that contains "/" or "~" reaches that key, and    *)
(* the round trip of UpdateToState holds for targets whose keys contain   *)
(* these characters.                                                      *)
C24_PointersDecoded ==
    /\ \A p \in EscapedPaths, ord \in DiffOrders :
          /\ DecodeSegment(p[2]) \in DOMAIN Read(docs[1]).v
                => /\ applyOp(docs[1], 1, Op("remove", p, GoNil), ord).err = ""
                   /\ Read(applyOp(docs[1], 1, Op("remove", p, GoNil), ord).s)
                          = Expected(docs[1], Op("remove", DecodePath(p), GoNil))
          /\ Read(applyOp(docs[1], 1, Op("add", p, GoStr("v")), ord).s)
                = Expected(docs[1], Op("add", DecodePath(p), GoStr("v")))
    /\ (last.call = "UpdateToState" /\ last.err = ""
           /\ DOMAIN last.arg.v \cap EscapedKeys # {})
          => Read(docs[last.doc]) = Numeric(last.arg)

----------------------------------------------------------------------------
(* The diff of a map that gained one key                                   *)

(* the old maps: the targets with a key and the state of the document     *)
OldMaps == {m \in DiffTargets \cup {StateOf(1)} : DOMAIN m.v # {}}

(* the keys and values that are added *)
NewKeys == {"a", "b", "x/y"}
NewValues == {GoFloat(2), GoStr("v"), GoNil, M1("a", GoFloat(1)), GoList(<<GoFloat(1)>>)}

(* the map m with key k added *)
Plus(m, k, v) == GoMap([x \in DOMAIN m.v \cup {k} |-> IF x = k THEN v ELSE m.v[x]])

----------------------------------------------------------------------------
(* Operation types the Go applier does not implement                       *)

OtherTypes == {"move", "copy", "test", "frob"}

(* a batch of the operation and an add that succeeds on every document *)
ThenAdd(op) == <<op, Op("add", <<"", "b">>, GoFloat(2))>>

(* C32, as stated: every non-root operation whose type is not add, remove *)
(* or replace fails with the unsupported-operation error, performs no     *)
(* mutation and stops the batch.                                          *)
C32_AlwaysUnsupported ==
    \A type \in OtherTypes, p \in GoPaths \cup NavPaths, ord \in KeyOrders :
        ApplyLoop(docs[1], 1, ThenAdd(Op(type, p, GoFloat(1))), 1, ord)
            = [err |-> "UnsupportedOperation", s |-> docs[1], k |-> 1]

(* C32, amended: every non-root operation whose type is not add, remove   *)
(* or replace fails, performs no mutation and stops the batch. The error  *)
(* is the unsupported-operation error when the segments before the last   *)
(* resolve to a container; the path is navigated before the type is       *)
(* looked at, so that otherwise the error is the one of the navigation.   *)
C32_UnsupportedRejected ==
    \A type \in OtherTypes, p \in GoPaths \cup NavPaths, ord \in KeyOrders :
        ApplyLoop(docs[1], 1, ThenAdd(Op(type, p, GoFloat(1))), 1, ord)
            = [err |-> IF navigateToParent(docs[1], Tail(p)).err = ""
                       THEN "UnsupportedOperation"
                       ELSE navigateToParent(docs[1], Tail(p)).err,
               s |-> docs[1], k |-> 1]

(* a move to /b was given to a document that holds something: the call    *)
(* failed with the unsupported-operation error and changed nothing        *)
C32_Witness ==
    /\ GoSingle(Op("move", <<"", "b">>, GoNil))
    /\ last.err = "UnsupportedOperation" /\ last.k = 1
    /\ DOMAIN Read(last.pre).v # {}
    /\ docs[last.doc] = last.pre

----------------------------------------------------------------------------
(* A failing operation                                                     *)

(* root values with an entry that does not convert *)
HalfConverting ==
    { M2("a", GoInt(2), "b", GoUint(BigUint)),
      M1("b", GoUint(BigUint)),
      M2("a", GoChan, "l", GoList(<<GoFloat(1)>>)) }

(* C33: per-operation atomicity on failure. Every failing operation, root *)
(* or non-root, an add or replace whose value, or one entry of whose root *)
(* value, cannot be converted included, performs no mutation: the         *)
(* document right after the failure equals the document just before that  *)
(* operation.                                                             *)
C33_FailureMutatesNothing ==
    /\ \A type \in {"add", "remove", "replace", "move"}, ord \in KeyOrders :
          /\ \A p \in GoPaths \cup NavPaths, v \in GoValues :
                applyOp(docs[1], 1, Op(type, p, v), ord).err # ""
                    => applyOp(docs[1], 1, Op(type, p, v), ord).s = docs[1]
          /\ \A v \in NotMaps \cup HalfConverting \cup {GoNil} :
                applyOp(docs[1], 1, Op(type, RootPath, v), ord).err # ""
                    => applyOp(docs[1], 1, Op(type, RootPath, v), ord).s = docs[1]
    /\ (last.call = "ApplyOperations" /\ last.k > 0)
          => \E ord \in KeyOrders :
                docs[last.doc]
                    = PrefixState(last.pre, last.doc, last.patch, last.k - 1, ord)

----------------------------------------------------------------------------
(* Paths as strings.Split returns them                                     *)

(* paths that do not begin with "/": "a", "a/b", "l/0", "b/" *)
Unanchored == {<<"a">>, <<"a", "b">>, <<"l", "0">>, <<"b", "">>}

(* paths of every shape: the empty one, "/", "//", and the ones above *)
AnyPaths ==
    {RootPath, <<"", "">>, <<"", "", "">>} \cup Unanchored \cup GoPaths \cup NavPaths

(* C39: path well-formedness. A path that is not empty and does not begin *)
(* with "/" is rejected with an invalid-path error and no mutation, and   *)
(* navigateToParent is never reached with an empty list of segments,      *)
(* because every empty path is handled by the root branch.                *)
C39_PathWellFormed ==
    /\ \A p \in Unanchored, type \in {"add", "remove", "replace", "move"} :
          \A v \in GoValues, ord \in KeyOrders :
              applyOp(docs[1], 1, Op(type, p, v), ord) = OpErr("InvalidPath", docs[1])
    /\ \A p \in AnyPaths :
          /\ applyOpSegments(Op("add", p, GoNil)).called
                => Len(applyOpSegments(Op("add", p, GoNil)).segs) > 0
          /\ p = RootPath => ~applyOpSegments(Op("add", p, GoNil)).called

(* an add with the path "a" was refused on a document that holds keys,    *)
(* which are as they were                                                 *)
C39_Witness ==
    /\ GoSingle(Op("add", <<"a">>, GoFloat(2)))
    /\ last.err = "InvalidPath"
    /\ DOMAIN Read(last.pre).v # {}
    /\ docs[last.doc] = last.pre

----------------------------------------------------------------------------
(* A write transaction that is not granted                                 *)

(* the step is a call of ApplyOperations or ApplyStateVector on d *)
WriteCall(d) ==
    /\ calls' = calls + 1
    /\ last'.doc = d
    /\ last'.call \in {"ApplyOperations", "ApplyStateVector"}

(* C38: if the engine does not grant a write transaction, for example     *)
(* because another transaction on the document is still open,             *)
(* ApplyOperations and ApplyStateVector return an error, apply no         *)
(* operation or merge, and commit nothing; the document is unchanged.     *)
C38_NotGranted ==
    [][\A d \in Clients :
          (WriteCall(d) /\ txns[d] # 0)
              => /\ last'.err = "NoTransaction"
                 /\ last'.trace = <<>>
                 /\ docs' = docs
                 /\ txns' = txns]_vars

(* ApplyStateVector was called with bytes that would have changed the     *)
(* document while another transaction was open on it: it returned the     *)
(* error and the document is as before                                    *)
C38_Witness ==
    /\ last.call = "ApplyStateVector" /\ last.err = "NoTransaction"
    /\ txns[last.doc] = 1
    /\ last.arg.valid
    /\ Merged(last.pre, last.arg).s # last.pre
    /\ docs[last.doc] = last.pre

----------------------------------------------------------------------------
(* Calls that only read                                                    *)

(* the step is a call of ToJSON or GetStateVector, or an UpdateToState    *)
(* that read the state with GetState and found nothing to change          *)
ReadCall ==
    /\ calls' = calls + 1
    /\ \/ last'.call \in {"ToJSON", "GetStateVector"}
       \/ last'.call = "UpdateToState" /\ last'.err = "" /\ last'.patch = <<>>

(* C36: ToJSON, GetState and GetStateVector are read-only. Calling them,  *)
(* any number of times and between other calls, changes neither the state *)
(* of a document nor the bytes a later GetStateVector returns, nor what a *)
(* merge of those bytes gives.                                            *)
C36_ReadOnly ==
    [][ReadCall =>
          /\ docs' = docs
          /\ \A d \in Clients :
                /\ BranchJSON(docs'[d], RootId) = BranchJSON(docs[d], RootId)
                /\ Snapshot(docs'[d]) = Snapshot(docs[d])
                /\ \A e \in Clients :
                      Merged(docs'[e], Snapshot(docs'[d])).s
                          = Merged(docs[e], Snapshot(docs[d])).s]_vars

(* GetStateVector returned the bytes of a document that holds something,  *)
(* after ToJSON or another read had been called on it, and the document   *)
(* is as it was                                                           *)
C36_Witness ==
    /\ last.call = "GetStateVector" /\ last.err = "" /\ calls >= 3
    /\ last.pre # NewYDoc
    /\ docs[last.doc] = last.pre
    /\ last.arg = Snapshot(docs[last.doc])

----------------------------------------------------------------------------
(* The root of a document                                                  *)

(* C37: the document root is always a Map. A new document reads back as   *)
(* the empty map, and after any sequence of ApplyOperations,              *)
(* UpdateToState and ApplyStateVector calls, successful or failing,       *)
(* ToJSON still returns a map, because no operation can replace the root  *)
(* with a list or a primitive.                                            *)
C37_RootIsMap ==
    /\ ValueOf(NewYDoc) = EmptyMap
    /\ \A d \in Clients :
          /\ ToJSON(docs[d], TRUE).err = ""
          /\ ToJSON(docs[d], TRUE).json.t = "map"
          /\ ytype_kind(docs[d], RootId) = "map"
          /\ \A type \in {"add", "replace"}, v \in NotMaps, ord \in KeyOrders :
                applyOp(docs[d], d, Op(type, RootPath, v), ord)
                    = OpErr("TypeMismatch", docs[d])
    /\ (last.call = "ToJSON" /\ last.err = "") => last.json.t = "map"

(* a replica that another one's bytes had been merged into, or that had  *)
(* been written to, was given a root replace with a list: the call failed *)
(* and ToJSON still returns the map with its keys                         *)
C37_Witness ==
    /\ last.call = "ApplyOperations" /\ last.err = "TypeMismatch"
    /\ last.patch = <<Op("replace", RootPath, GoList(<<GoFloat(1)>>))>>
    /\ calls = MaxAllCalls
    /\ ToJSON(docs[last.doc], TRUE).json.t = "map"
    /\ DOMAIN ToJSON(docs[last.doc], TRUE).json.v # {}
    /\ ToJSON(docs[last.doc], TRUE).json = ValueOf(last.pre)

----------------------------------------------------------------------------
(* C34: every handle navigateToParent obtains is destroyed exactly once,  *)
(* never twice and never leaked: by navigateToParent itself when the      *)
(* navigation fails, by applyOp when it returns after a successful        *)
(* navigation, and always before the write transaction is committed; the  *)
(* allocations of a converted value are each freed exactly once, after    *)
(* the engine call that uses them.                                        *)

Matching(E, i, e) ==
    { j \in 1..Len(E) : E[j].e = e /\ E[j].op = E[i].op /\ E[j].h = E[i].h }

NavFailed(E, n) ==
    \E k \in 1..Len(E) : E[k].e = "navErr" /\ E[k].op = n

WellReleased(E) ==
    /\ E[1].e = "openW"
    /\ E[Len(E)].e = "commitW"
    /\ \A i \in 1..Len(E) :
          /\ E[i].e = "get" =>
                /\ Cardinality(Matching(E, i, "destroy")) = 1
                /\ \A j \in Matching(E, i, "destroy") :
                      /\ i < j /\ j < Len(E)
                      /\ E[j].by = IF NavFailed(E, E[i].op)
                                   THEN "navigateToParent" ELSE "applyOp"
          /\ E[i].e = "destroy" =>
                /\ Cardinality(Matching(E, i, "get")) = 1
                /\ E[i].by = "applyOp" =>
                      \A k \in 1..Len(E) :
                          (E[k].op = E[i].op /\ E[k].e \in {"alloc", "use"})
                              => k < i
          /\ E[i].e = "alloc" =>
                /\ Cardinality(Matching(E, i, "free")) = 1
                /\ \A j \in Matching(E, i, "free") :
                      /\ i < j /\ j < Len(E)
                      /\ \A k \in 1..Len(E) :
                            (E[k].op = E[i].op /\ E[k].e = "use") => k < j
          /\ E[i].e = "free" => Cardinality(Matching(E, i, "alloc")) = 1

(* values that allocate nothing, once, several times, and values whose    *)
(* conversion fails after it has allocated                                *)
Converted ==
    { GoFloat(1), GoStr("x"), EmptyMap, GoList(<<GoStr("x"), GoUint(BigUint)>>),
      GoUint(BigUint),
      M2("a", GoStr("x"), "b", GoUint(BigUint)),
      M2("a", GoStr("x"), "l", GoList(<<GoStr("y")>>)) }

ConvertedAt == { <<"", "a">>, <<"", "l", "0">>, <<"", "l", "0", "a">>, <<"", "l", "3">> }

(* the events of the batch ops applied to s are well released *)
Releases(s, client, ops, ord) ==
    \A E \in {ApplyOperationsEvents(s, client, ops, ord)} : WellReleased(E)

C34_HandleLifetime ==
    /\ \A type \in {"add", "remove", "replace", "move"} :
          \A p \in NavPaths \cup GoPaths :
              Releases(docs[1], 1, <<Op(type, p, GoStr("x"))>>, <<"a", "b", "l">>)
    /\ \A ord \in KeyOrders, type \in {"add", "replace"}, v \in Converted :
          /\ \A p \in ConvertedAt :
                Releases(docs[1], 1, <<Op(type, p, v)>>, ord)
          /\ Releases(docs[1], 1, <<Op(type, RootPath, v)>>, ord)
    /\ \A v \in HalfConverting, ord \in KeyOrders :
          Releases(docs[1], 1, <<Op("replace", RootPath, v)>>, ord)
    /\ (last.call = "ApplyOperations" /\ last.err # "NoTransaction")
          => \A ord \in KeyOrders :
                Releases(last.pre, last.doc, last.patch, ord)

Count(E, e, by) == Len(SelectSeq(E, LAMBDA x : x.e = e /\ x.by = by))

(* the conversion of the value stopped at its second entry, after the key *)
(* and the string of the first entry and the key of the second were       *)
(* allocated, below two resolved containers: the operation failed, its    *)
(* two handles were destroyed by applyOp and its three allocations freed  *)
C34_Witness ==
    /\ last.call = "ApplyOperations" /\ last.err = "Overflow"
    /\ last.patch = <<Op("add", <<"", "l", "0", "a">>,
                         M2("a", GoStr("x"), "b", GoUint(BigUint)))>>
    /\ \A E \in {ApplyOperationsEvents(last.pre, last.doc, last.patch,
                                        <<"a", "b", "l">>)} :
           /\ Count(E, "get", "navigateToParent") = 2
           /\ Count(E, "destroy", "applyOp") = 2
           /\ Count(E, "destroy", "navigateToParent") = 0
           /\ Count(E, "alloc", "applyOp") = 3
           /\ Count(E, "free", "applyOp") = 3
           /\ Count(E, "use", "applyOp") = 0

(* the navigation failed below the two containers it had resolved and     *)
(* destroyed their handles itself                                         *)
C34_WitnessNav ==
    /\ last.call = "ApplyOperations" /\ last.err # ""
    /\ last.patch = <<Op("add", <<"", "l", "0", "a", "b">>, GoStr("x"))>>
    /\ \A E \in {ApplyOperationsEvents(last.pre, last.doc, last.patch,
                                        <<"a", "b", "l">>)} :
           /\ Count(E, "get", "navigateToParent") >= 2
           /\ Count(E, "destroy", "navigateToParent")
                 = Count(E, "get", "navigateToParent")
           /\ Count(E, "destroy", "applyOp") = 0

----------------------------------------------------------------------------
(* C31: AddValue(key, value) sets the root key to the value, inserting or *)
(* overwriting it, and changes no other root key; a call that fails       *)
(* changes nothing.  After AddValue was called once for each of k         *)
(* distinct keys, the document has those k root keys besides the ones it  *)
(* had, so a new document has exactly those k.                            *)

(* the root map read back after the entry key was set to value *)
WithEntry(json, key, value) ==
    GoMap([k \in DOMAIN json.v \cup {key} |->
              IF k = key THEN Numeric(value) ELSE json.v[k]])

Sets(s, key, value, r) ==
    /\ r.err = "" => Read(r.s) = WithEntry(Read(s), key, value)
    /\ r.err # "" => r.s = s

(* AddValue once for each key of ks, which get the values of vs in turn *)
RECURSIVE AddEach(_, _, _, _)
AddEach(s, ks, vs, ord) ==
    IF ks = <<>> THEN s
    ELSE AddEach(AddValue(s, 1, Head(ks), Head(vs), ord, TRUE).s,
                 Tail(ks), Tail(vs) \o <<Head(vs)>>, ord)

DistinctKeys ==
    { <<"a">>, <<"b", "a">>, <<"l", "a", "b">>, <<"a", "b", "l">>, <<"b", "l">> }

Convertible == <<GoStr("x"), GoNil, M1("a", GoFloat(1)), GoList(<<GoInt(2), GoNil>>)>>

Elems(q) == { q[i] : i \in 1..Len(q) }

AddPool ==
    AddValues \cup { GoFloat(1), GoNil, GoBool(TRUE), EmptyMap, GoChan,
                     M1("a", GoFloat(1)) }

C31_AddValueSetsKey ==
    /\ \A ks \in DistinctKeys, ord \in KeyOrders :
          /\ DOMAIN ValueOf(AddEach(NewYDoc, ks, Convertible, ord)).v = Elems(ks)
          /\ DOMAIN ValueOf(AddEach(docs[1], ks, Convertible, ord)).v
                = DOMAIN ValueOf(docs[1]).v \cup Elems(ks)
    /\ \A key \in {"a", "b", "l"}, value \in AddPool, ord \in KeyOrders :
          Sets(docs[1], key, value, AddValue(docs[1], 1, key, value, ord, TRUE))
    /\ last.call = "AddValue" =>
          \A key \in DOMAIN last.arg.v :
              Sets(last.pre, key, last.arg.v[key],
                   [err |-> last.err, s |-> docs[1]])

(* the third call overwrites one of the two keys the first two calls set *)
C31_Witness ==
    /\ last.call = "AddValue" /\ last.err = "" /\ calls = MaxAddCalls
    /\ last.arg = M1("a", GoList(<<GoInt(2), GoNil>>))
    /\ Read(last.pre) = M2("a", GoStr("x"), "b", [t |-> "number", v |-> 2])
    /\ Read(docs[1]) = M2("a", GoList(<<[t |-> "number", v |-> 2], GoNil>>),
                          "b", [t |-> "number", v |-> 2])

----------------------------------------------------------------------------
(* C35: a move inside one list checks the destination index against the   *)
(* list without the source element: for a list of n elements, the move    *)
(* from index i to index j succeeds iff j <= n - 1; a move to j > n - 1   *)
(* fails with an index error after the source element was deleted, and    *)
(* leaves the list with n - 1 elements.                                   *)

Dropped(q, i) == [n \in 1..(Len(q) - 1) |-> IF n < i THEN q[n] ELSE q[n + 1]]

Put(q, j, x) ==
    [n \in 1..(Len(q) + 1) |-> IF n < j THEN q[n] ELSE IF n = j THEN x ELSE q[n - 1]]

(* the list under the root key l as it reads back, <<>> when l holds none *)
ListL(s) ==
    IF "l" \in DOMAIN Read(s).v /\ Read(s).v["l"].t = "list"
    THEN Read(s).v["l"].v ELSE <<>>

MovedInList(s, i, j, r) ==
    IF j <= Len(ListL(s)) - 1
    THEN /\ r.err = ""
         /\ ListL(r.s) = Put(Dropped(ListL(s), i + 1), j + 1, ListL(s)[i + 1])
    ELSE /\ r.err = "IndexOutOfRange"
         /\ ListL(r.s) = Dropped(ListL(s), i + 1)
         /\ Len(ListL(r.s)) = Len(ListL(s)) - 1

C35_MoveInsideList ==
    /\ \A i \in 0..(Len(ListL(docs[1])) - 1), j \in 0..(Len(ListL(docs[1])) + 1) :
          MovedInList(docs[1], i, j,
                      jsApplyOp(docs[1], 1,
                                JsMove(P2("l", Digits[i + 1]), P2("l", Digits[j + 1]))))
    /\ ( /\ last.call = "applyOperations"
         /\ last.patch = <<JsMove(P2("l", "0"), P2("l", "2"))>>
         /\ Len(ListL(last.pre)) > 0 )
          => MovedInList(last.pre, 0, 2, [err |-> last.err, s |-> docs[1]])

(* the move from index 0 to index 2 of a list of two elements has failed  *)
(* and has left the second element alone                                  *)
C35_Witness ==
    /\ last.call = "applyOperations"
    /\ last.patch = <<JsMove(P2("l", "0"), P2("l", "2"))>>
    /\ Len(ListL(last.pre)) = 2
    /\ last.err = "IndexOutOfRange"
    /\ ListL(docs[1]) = <<ListL(last.pre)[2]>>

----------------------------------------------------------------------------
(* C40: the default identity of a list element is its field id when the   *)
(* element is a Map containing id, otherwise its field key when it        *)
(* contains key, otherwise a structural encoding of the whole value; the  *)
(* identities of an old and a new element are equal iff those fields, or  *)
(* those values, are equal.  The identity is a string: a field that is a  *)
(* string is taken as it is.                                              *)

Has(e, f) == e.t = "map" /\ f \in DOMAIN e.v

(* the field or value the identity of e is taken from *)
IdentityField(e) ==
    IF Has(e, "id") THEN e.v["id"]
    ELSE IF Has(e, "key") THEN e.v["key"]
    ELSE e

IdentityOf(e, identity) ==
    /\ Has(e, "id") => identity = jsString(e.v["id"])
    /\ (~Has(e, "id") /\ Has(e, "key")) => identity = jsString(e.v["key"])
    /\ (Has(e, "id") \/ Has(e, "key")) =>
          (IdentityField(e).t = "str" => identity = IdentityField(e).v)
    /\ (~Has(e, "id") /\ ~Has(e, "key")) =>
          \E ord \in HashOrders : identity = JSONstringify(e, ord)

Fielded(e) == Has(e, "id") \/ Has(e, "key")

====
